---- MODULE Spec2Model ----
(***************************************************************************)
(* The FoxL tree-walking evaluator (src/FoxL/interpreter.cpp, lines 1-521) *)
(* driven by main (src/FoxL.cpp), on the AST the parser of                 *)
(* src/unnamed/part_007 builds.                                            *)
(*                                                                         *)
(* One step of the model is one iteration of Interpreter::interpret: the   *)
(* whole execute() of one top-level node, calls and nested statements      *)
(* included, computed by the recursive operators Execute / Evaluate.       *)
(* The program run is any sequence of at most MaxSteps nodes drawn from    *)
(* the pool of the program family chosen at startup.                       *)
(*                                                                         *)
(* Abstractions, stated once:                                              *)
(*  - AST nodes carry no `line`; evaluate()'s " at line N" suffix on       *)
(*    error messages is dropped (messages keep their base text).           *)
(*  - the double alternative of the value variant is not produced by any   *)
(*    modelled expression (NumberExpression evaluates to int, read() is    *)
(*    not modelled), so the double branches of the operators are omitted.  *)
(*  - int arithmetic is unbounded (no modelled program overflows).         *)
(*                                                                         *)
(* The lexer (src/FoxL/cloner.cpp, lines 299-478) and the parser of        *)
(* src/unnamed/part_006 are modelled on their own, each under its own      *)
(* specification (LexSpec, ParseSpec), on sources drawn from bounded sets. *)
(***************************************************************************)
EXTENDS Integers, Sequences, FiniteSets, TLC

VARIABLES
    family,      \* which program family (source file) is being run
    variables,   \* Interpreter::variables : name -> [value, isConstant]
    functions,   \* Interpreter::functions : name -> [parameters, body]
    out,         \* lines written to std::cout
    err,         \* lines written to std::cerr
    status,      \* "running" | "exit0" | "exit1" | "hung" | "crashed"
    nsteps,      \* number of top-level nodes consumed so far
    last,        \* the top-level node consumed by the latest step
    trace,       \* events of the latest step (calls, statements, failures)
    constDecl,   \* names whose top-level binding was created by `const`
    source,      \* Lexer::source, a sequence of characters
    position,    \* Lexer::position, 0-based
    line,        \* Lexer::line
    tokens,      \* the tokens getNextToken() has returned so far
    lexed,       \* how the latest call of getNextToken() ended
    currentToken, \* Parser::currentToken
    built,       \* the AST nodes built by the calls of Parser::parse() so far
    parsed,      \* how the latest call of Parser::parse() or peekNextToken() ended
    peeked,      \* the token the latest call of Parser::peekNextToken() returned
    original,    \* the statement cloneStatement() of cloner.cpp is called on
    cloned,      \* what the call gave: not called yet, a tree, or an exception
    pending      \* the tokens the lexer has yet to give the parser of part_007

evalVars == <<family, variables, functions, out, err, status, nsteps, last, trace, constDecl>>

lexVars == <<source, position, line, tokens, lexed>>

parseVars == <<currentToken, built, parsed, peeked>>

cloneVars == <<original, cloned>>

vars == <<evalVars, lexVars, parseVars, cloneVars, pending>>

(* an AST node of src/FoxL/ast_nodes.h: its class, its strings (operator or
   declared type, name or literal), its parameter names, its `line` and its
   child nodes; a nullptr is the node of class "null" *)
Node(kind, op, name, parameters, ln, children) ==
    [kind |-> kind, op |-> op, name |-> name, parameters |-> parameters, line |-> ln,
     children |-> children]

NullNode == Node("null", "", "", <<>>, 0, <<>>)

NotCloned == [done |-> FALSE, ok |-> FALSE, node |-> NullNode]

(* Parser::currentToken before a Parser is constructed *)
NoToken == [type |-> "Unknown", value |-> <<>>, line |-> 0, start |-> 0]

(* Bounds of the model *)
MaxSteps == 4
MaxFuel == 3
MaxSource == 4

(***************************************************************************)
(* Values: std::variant<int, double, string, bool, vector<int>,            *)
(* vector<string>>.  `t` is the active alternative; the other payload      *)
(* fields keep a fixed default so that record equality is variant ==.      *)
(***************************************************************************)
IntV(n) == [t |-> "int", i |-> n, s |-> "", ia |-> <<>>, sa |-> <<>>]
StrV(x) == [t |-> "str", i |-> 0, s |-> x, ia |-> <<>>, sa |-> <<>>]
BoolV(b) == [t |-> "bool", i |-> IF b THEN 1 ELSE 0, s |-> "", ia |-> <<>>, sa |-> <<>>]
IVecV(q) == [t |-> "ivec", i |-> 0, s |-> "", ia |-> q, sa |-> <<>>]
SVecV(q) == [t |-> "svec", i |-> 0, s |-> "", ia |-> <<>>, sa |-> q]

EmptyMap == [n \in {} |-> IntV(0)]

(* m with key k set to v (std::unordered_map operator[] followed by =) *)
Put(m, k, v) == [n \in (DOMAIN m) \cup {k} |-> IF n = k THEN v ELSE m[n]]

(***************************************************************************)
(* printValue: the text one write() puts on std::cout (without the         *)
(* newline).  bool is streamed without boolalpha, so it prints 1 or 0.     *)
(***************************************************************************)
RECURSIVE JoinInts(_, _)
JoinInts(q, k) ==
    IF k > Len(q) THEN ""
    ELSE ToString(q[k]) \o (IF k < Len(q) THEN ", " ELSE "") \o JoinInts(q, k + 1)

RECURSIVE JoinStrs(_, _)
JoinStrs(q, k) ==
    IF k > Len(q) THEN ""
    ELSE q[k] \o (IF k < Len(q) THEN ", " ELSE "") \o JoinStrs(q, k + 1)

printValue(v) ==
    CASE v.t = "int" -> ToString(v.i)
      [] v.t = "str" -> v.s
      [] v.t = "bool" -> ToString(v.i)
      [] v.t = "ivec" -> "[" \o JoinInts(v.ia, 1) \o "]"
      [] v.t = "svec" -> "[" \o JoinStrs(v.sa, 1) \o "]"

(***************************************************************************)
(* AST nodes (classes of src/unnamed/part_007, lines 7-307).               *)
(* A NumberExpression holds a double: `whole` and a tenths digit `frac`.   *)
(***************************************************************************)
Num(n) == [k |-> "Number", value |-> [whole |-> n, frac |-> 0]]
NumF(n, d) == [k |-> "Number", value |-> [whole |-> n, frac |-> d]]
Str(x) == [k |-> "String", value |-> StrV(x)]
Bool(b) == [k |-> "Bool", value |-> BoolV(b)]
Var(n) == [k |-> "Variable", name |-> n]
Bin(l, o, r) == [k |-> "Binary", left |-> l, op |-> o, right |-> r]
Idx(a, x) == [k |-> "Index", array |-> a, index |-> x]
Arr(es) == [k |-> "Array", elements |-> es]
Call(f, as) == [k |-> "FunctionCall", functionName |-> f, arguments |-> as]

NullStmt == [k |-> "null"]
WriteStatement(e) == [k |-> "Write", messageExpr |-> e]
VariableDeclaration(ty, n, init, kw) ==
    [k |-> "VarDecl", type |-> ty, name |-> n, initializer |-> init, keyword |-> kw]
FunctionDeclaration(n, ps, b) == [k |-> "FuncDecl", name |-> n, parameters |-> ps, body |-> b]
IfStatement(c, th, el) == [k |-> "If", condition |-> c, thenBranch |-> th, elseBranch |-> el]
WhileStatement(c, b) == [k |-> "While", condition |-> c, body |-> b]
ForStatement(i, c, inc, b) ==
    [k |-> "For", initializer |-> i, condition |-> c, increment |-> inc, body |-> b]
ReturnStatement(e) == [k |-> "Return", expression |-> e]
BlockStatement(ss) == [k |-> "Block", statements |-> ss]

ExpressionKinds == {"Number", "String", "Bool", "Variable", "Binary", "Index", "Array", "FunctionCall"}
IsExpression(n) == n.k \in ExpressionKinds

NullExpr == [k |-> "nullexpr"]

(***************************************************************************)
(* Parser (src/unnamed/part_007): what the statement forms become.         *)
(* parseLetDeclaration serves both `let` and `const` and always builds a   *)
(* declaration of type "auto"; the keyword is kept in the node only to     *)
(* state properties about it, the evaluator never reads it.                *)
(* parseExpressionStatement returns the bare Expression; castToStatement   *)
(* turns a node that is no Statement into nullptr.                         *)
(***************************************************************************)
parseLetDeclaration(kw, n, init) == VariableDeclaration("auto", n, init, kw)

parseExpressionStatement(e) == e

castToStatement(node) == IF IsExpression(node) THEN NullStmt ELSE node

(***************************************************************************)
(* Results of evaluate()/execute(): the evaluator state after the call,    *)
(* and how control leaves: "ok"/"normal" (a value, or a statement that     *)
(* ended), "err" (a std::exception in flight, with its message), "return"  *)
(* (a ReturnException in flight), "crash" (the process died reading freed  *)
(* memory), "hang" (the fuel of the model ran out:                         *)
(* the run does not terminate within the bound).                           *)
(***************************************************************************)
Ok(st, v) == [st |-> st, sig |-> "ok", v |-> v, msg |-> ""]
Err(st, m) == [st |-> st, sig |-> "err", v |-> IntV(0), msg |-> m]
Normal(st) == [st |-> st, sig |-> "normal", v |-> IntV(0), msg |-> ""]
Hang(st) == [st |-> st, sig |-> "hang", v |-> IntV(0), msg |-> ""]
Crash(st) == [st |-> st, sig |-> "crash", v |-> IntV(0), msg |-> ""]

BadVariantAccess == "std::get: wrong index for variant"

Log(st, e) == [st EXCEPT !.trace = Append(@, e)]

(* C++ integer division truncates toward zero *)
TruncDiv(a, b) ==
    IF (a >= 0) = (b > 0) THEN (IF a >= 0 THEN a \div b ELSE (-a) \div (-b))
    ELSE -((IF a >= 0 THEN a ELSE -a) \div (IF b >= 0 THEN b ELSE -b))

evaluateNumberExpression(e) == IntV(e.value.whole)

(* the operators of evaluateBinaryExpression other than "=" (lines 257-339) *)
ApplyBinaryOperator(o, l, r, st) ==
    LET ii == l.t = "int" /\ r.t = "int" IN
    CASE o = "+" ->
            IF ii THEN Ok(st, IntV(l.i + r.i))
            ELSE IF l.t = "str" /\ r.t = "str" THEN Ok(st, StrV(l.s \o r.s))
            ELSE IF l.t = "str" /\ r.t = "int" THEN Ok(st, StrV(l.s \o ToString(r.i)))
            ELSE IF l.t = "int" /\ r.t = "str" THEN Ok(st, StrV(ToString(l.i) \o r.s))
            ELSE Err(st, "Unsupported operand types for '+'.")
      [] o = "-" -> IF ii THEN Ok(st, IntV(l.i - r.i))
                    ELSE Err(st, "Unsupported operand types for '-'.")
      [] o = "*" -> IF ii THEN Ok(st, IntV(l.i * r.i))
                    ELSE Err(st, "Unsupported operand types for '*'.")
      [] o = "/" -> IF ii THEN (IF r.i = 0 THEN Err(st, "Division by zero.")
                                ELSE Ok(st, IntV(TruncDiv(l.i, r.i))))
                    ELSE Err(st, "Unsupported operand types for '/'.")
      [] o = "==" -> Ok(st, BoolV(l = r))
      [] o = "!=" -> Ok(st, BoolV(l # r))
      [] o = "<" -> IF ii THEN Ok(st, BoolV(l.i < r.i))
                    ELSE Err(st, "Unsupported operand types for '<'.")
      [] o = ">" -> IF ii THEN Ok(st, BoolV(l.i > r.i))
                    ELSE Err(st, "Unsupported operand types for '>'.")
      [] o = "<=" -> IF ii THEN Ok(st, BoolV(l.i <= r.i))
                     ELSE Err(st, "Unsupported operand types for '<='.")
      [] o = ">=" -> IF ii THEN Ok(st, BoolV(l.i >= r.i))
                     ELSE Err(st, "Unsupported operand types for '>='.")
      [] OTHER -> Err(st, "Unsupported binary operator: " \o o)

(* a bound that rejects position 0 *)
InBoundsFromOne(index, size) == index > 0 /\ index < size

(* index >= 0 && index < array.size() (lines 236, 243, 365, 372) *)
InBounds(index, size) == index >= 0 /\ index < size

(* a store through a vector shared by every binding that holds an equal array *)
StoreElementShared(vs, n, index, v) ==
    [m \in DOMAIN vs |->
        IF vs[m].value = vs[n].value
        THEN (IF v.t = "int"
              THEN [vs[m] EXCEPT !.value.ia[index + 1] = v.i]
              ELSE [vs[m] EXCEPT !.value.sa[index + 1] = v.s])
        ELSE vs[m]]

(* array[index] = value on the vector stored in variables[name] (lines 235-237, 242-244) *)
StoreElement(vs, n, index, v) ==
    IF v.t = "int"
    THEN [vs EXCEPT ![n].value.ia[index + 1] = v.i]
    ELSE [vs EXCEPT ![n].value.sa[index + 1] = v.s]

(* a check that lets surplus arguments pass *)
ArityLoose(parameters, arguments) == Len(parameters) <= Len(arguments)

(* parameters.size() != expr->arguments.size() (line 410) *)
ArityMatches(parameters, arguments) == Len(parameters) = Len(arguments)

(* a call that leaves the callee's variables in place *)
RestoreCallerLeaky(oldVariables, current) == current

(* a call that gives the caller's names the values the callee left in them *)
RestoreCallerMerged(oldVariables, current) ==
    [m \in DOMAIN oldVariables |-> current[m]]

(* a call that restores the caller's names and keeps the names the callee added *)
RestoreCallerKeepsLocals(oldVariables, current) ==
    [m \in DOMAIN current |-> IF m \in DOMAIN oldVariables THEN oldVariables[m] ELSE current[m]]

(* variables = oldVariables (lines 424, 427) *)
RestoreCaller(oldVariables, current) == oldVariables

(* a call that puts the callable table back as it was on entry *)
FunctionsRestored(oldFunctions, current) == oldFunctions

(* lines 417-427 save and restore `variables` only: `functions` stays as
   the body left it *)
FunctionsAfterCall(oldFunctions, current) == current

(***************************************************************************)
(* Interpreter::cloneStatement / cloneExpression (lines 459-521): a deep   *)
(* copy, or a failure on a node kind they do not know (a nullptr           *)
(* statement, a declaration without initializer).                          *)
(***************************************************************************)
RECURSIVE CanCloneExpression(_), CanCloneStatement(_), CanCloneStatements(_, _)
CanCloneExpression(e) ==
    CASE e.k \in {"Number", "String", "Bool", "Variable"} -> TRUE
      [] e.k = "Binary" -> CanCloneExpression(e.left) /\ CanCloneExpression(e.right)
      [] e.k = "Index" -> CanCloneExpression(e.array) /\ CanCloneExpression(e.index)
      [] e.k = "Array" -> \A j \in 1..Len(e.elements) : CanCloneExpression(e.elements[j])
      [] e.k = "FunctionCall" -> \A j \in 1..Len(e.arguments) : CanCloneExpression(e.arguments[j])
      [] OTHER -> FALSE

CanCloneStatements(ss, j) ==
    j > Len(ss) \/ (CanCloneStatement(ss[j]) /\ CanCloneStatements(ss, j + 1))

CanCloneStatement(s) ==
    CASE s.k = "Write" -> CanCloneExpression(s.messageExpr)
      [] s.k = "VarDecl" -> CanCloneExpression(s.initializer)
      [] s.k = "FuncDecl" -> CanCloneStatements(s.body, 1)
      [] s.k = "If" -> /\ CanCloneExpression(s.condition)
                       /\ CanCloneStatement(s.thenBranch)
                       /\ (s.elseBranch.k = "null" \/ CanCloneStatement(s.elseBranch))
      [] s.k = "For" -> /\ CanCloneStatement(s.initializer)
                        /\ CanCloneExpression(s.condition)
                        /\ CanCloneStatement(s.increment)
                        /\ CanCloneStatement(s.body)
      [] s.k = "While" -> CanCloneExpression(s.condition) /\ CanCloneStatement(s.body)
      [] s.k = "Return" -> CanCloneExpression(s.expression)
      [] s.k = "Block" -> CanCloneStatements(s.statements, 1)
      [] OTHER -> FALSE

RECURSIVE cloneExpression(_), cloneStatement(_)
cloneExpression(e) ==
    CASE e.k = "Binary" -> Bin(cloneExpression(e.left), e.op, cloneExpression(e.right))
      [] e.k = "Index" -> Idx(cloneExpression(e.array), cloneExpression(e.index))
      [] e.k = "Array" -> Arr([j \in 1..Len(e.elements) |-> cloneExpression(e.elements[j])])
      [] e.k = "FunctionCall" ->
            Call(e.functionName, [j \in 1..Len(e.arguments) |-> cloneExpression(e.arguments[j])])
      [] OTHER -> e

cloneStatement(s) ==
    CASE s.k = "Write" -> WriteStatement(cloneExpression(s.messageExpr))
      [] s.k = "VarDecl" ->
            VariableDeclaration(s.type, s.name, cloneExpression(s.initializer), s.keyword)
      [] s.k = "FuncDecl" ->
            FunctionDeclaration(s.name, s.parameters,
                                [j \in 1..Len(s.body) |-> cloneStatement(s.body[j])])
      [] s.k = "If" ->
            IfStatement(cloneExpression(s.condition), cloneStatement(s.thenBranch),
                        IF s.elseBranch.k = "null" THEN NullStmt ELSE cloneStatement(s.elseBranch))
      [] s.k = "For" ->
            ForStatement(cloneStatement(s.initializer), cloneExpression(s.condition),
                         cloneStatement(s.increment), cloneStatement(s.body))
      [] s.k = "While" -> WhileStatement(cloneExpression(s.condition), cloneStatement(s.body))
      [] s.k = "Return" -> ReturnStatement(cloneExpression(s.expression))
      [] s.k = "Block" ->
            BlockStatement([j \in 1..Len(s.statements) |-> cloneStatement(s.statements[j])])
      [] OTHER -> s

cloneStatements(ss) == [j \in 1..Len(ss) |-> cloneStatement(ss[j])]

(***************************************************************************)
(* The catch handlers of execute() (lines 152-156): a ReturnException is   *)
(* rethrown, every other exception is reported on std::cerr and ends the   *)
(* statement normally.                                                     *)
(***************************************************************************)
CatchHandlersCatchAll(r) ==
    CASE r.sig \in {"return", "err"} ->
            Normal([r.st EXCEPT
                      !.err = Append(@, "Error executing statement: " \o r.msg),
                      !.trace = Append(@, [ev |-> "fail", nest |-> r.st.nest,
                                           depth |-> r.st.depth, msg |-> r.msg])])
      [] r.sig = "ok" -> Normal(r.st)
      [] OTHER -> r

CatchHandlers(r) ==
    CASE r.sig = "return" -> r
      [] r.sig = "err" ->
            Normal([r.st EXCEPT
                      !.err = Append(@, "Error executing statement: " \o r.msg),
                      !.trace = Append(@, [ev |-> "fail", nest |-> r.st.nest,
                                           depth |-> r.st.depth, msg |-> r.msg])])
      [] r.sig = "ok" -> Normal(r.st)
      [] OTHER -> r

(***************************************************************************)
(* evaluate() and execute().  The evaluator state `st` threaded through    *)
(* them has the fields variables, functions, out, err, trace, and          *)
(*   depth : number of function activations on the C++ stack,              *)
(*   nest  : number of execute() frames enclosing the current one,         *)
(*   fuel  : loop iterations and calls the model still allows,             *)
(*   active: the names of the functions whose bodies are being run, by     *)
(*           depth,                                                        *)
(*   freed : the depths of the activations whose body vector was           *)
(*           destroyed while they run,                                     *)
(*   ub    : what a read of freed memory does in this run.                 *)
(*                                                                         *)
(* evaluateFunctionCallExpression iterates over `body`, a reference into   *)
(* functions[name] (lines 407-409, 420).  A FunctionDeclaration of a name  *)
(* that is being run assigns to that map entry (line 102): the old vector  *)
(* and its statements are destroyed while the loop still holds iterators   *)
(* into it.  Reading the next statement is then undefined behaviour: the   *)
(* freed memory may still hold the old statements ("stale") or the read    *)
(* may kill the process ("crash").                                         *)
(*                                                                         *)
(* The C++ functions call each other recursively.  Here every recursive    *)
(* call goes through Run: Run(what, node, st) runs evaluate ("evaluate"),  *)
(* execute as interpret() calls it ("interpret") or one frame deeper       *)
(* ("execute"), or one of the loops of the code                            *)
(* ("statements", "while", "for", "elements", "arguments") on node from    *)
(* state st.                                                               *)
(***************************************************************************)
RECURSIVE Run(_, _, _)

(* lines 382-401: every element is evaluated and must hold the type of the first *)
evaluateElements(n, st) ==
    IF n.j > Len(n.es) THEN Ok(st, IF n.ty = "int" THEN IVecV(n.acc) ELSE SVecV(n.acc))
    ELSE LET r == Run("evaluate", n.es[n.j], st) IN
         IF r.sig # "ok" THEN r
         ELSE IF r.v.t # n.ty THEN Err(r.st, BadVariantAccess)
         ELSE Run("elements",
                  [n EXCEPT !.j = @ + 1,
                            !.acc = Append(@, IF n.ty = "int" THEN r.v.i ELSE r.v.s)],
                  r.st)

evaluateArrayExpression(e, st) ==
    IF e.elements = <<>> THEN Ok(st, IntV(0))
    ELSE IF e.elements[1].k = "Number"
         THEN Run("elements", [es |-> e.elements, j |-> 1, ty |-> "int", acc |-> <<>>], st)
    ELSE IF e.elements[1].k = "String"
         THEN Run("elements", [es |-> e.elements, j |-> 1, ty |-> "str", acc |-> <<>>], st)
    ELSE Err(st, "Unsupported array element type.")

(* lines 213-255: op "=" (the right operand is evaluated once more here) *)
Assign(e, st) ==
    IF e.left.k = "Variable" THEN
        LET n == e.left.name IN
        IF n \notin DOMAIN st.variables THEN Err(st, "Undefined variable: " \o n)
        ELSE IF st.variables[n].isConstant
             THEN Err(st, "Cannot assign to constant variable: " \o n)
        ELSE LET rv == Run("evaluate", e.right, st) IN
             IF rv.sig # "ok" THEN rv
             ELSE Ok([rv.st EXCEPT !.variables[n].value = rv.v], rv.v)
    ELSE IF e.left.k = "Index" THEN
        IF e.left.array.k # "Variable" THEN Err(st, "Array must be a variable.")
        ELSE
        LET n == e.left.array.name
            av == Run("evaluate", e.left.array, st) IN
        IF av.sig # "ok" THEN av ELSE
        LET ix == Run("evaluate", e.left.index, av.st) IN
        IF ix.sig # "ok" THEN ix
        ELSE IF ix.v.t # "int" THEN Err(ix.st, BadVariantAccess) ELSE
        LET rv == Run("evaluate", e.right, ix.st) IN
        IF rv.sig # "ok" THEN rv
        ELSE IF av.v.t \in {"ivec", "svec"} THEN
            LET cur == rv.st.variables[n].value
                size == IF av.v.t = "ivec" THEN Len(cur.ia) ELSE Len(cur.sa) IN
            IF cur.t # av.v.t THEN Err(rv.st, BadVariantAccess)
            ELSE IF ~InBounds(ix.v.i, size) THEN Err(rv.st, "Index out of bounds")
            ELSE IF rv.v.t # (IF av.v.t = "ivec" THEN "int" ELSE "str")
                 THEN Err(rv.st, BadVariantAccess)
            ELSE LET stored == StoreElement(rv.st.variables, n, ix.v.i, rv.v) IN
                 Ok([rv.st EXCEPT
                        !.variables = stored,
                        !.trace = Append(@, [ev |-> "store", depth |-> rv.st.depth, name |-> n,
                                             before |-> rv.st.variables, after |-> stored])],
                    rv.v)
        ELSE Err(rv.st, "Variable is not an array")
    ELSE Err(st, "Unsupported left-hand side in assignment.")

(* lines 209-340: both operands are evaluated first, whatever the operator *)
evaluateBinaryExpression(e, st) ==
    LET l == Run("evaluate", e.left, st) IN
    IF l.sig # "ok" THEN l
    ELSE LET r == Run("evaluate", e.right, l.st) IN
         IF r.sig # "ok" THEN r
         ELSE IF e.op = "=" THEN Assign(e, r.st)
         ELSE ApplyBinaryOperator(e.op, l.v, r.v, r.st)

(* lines 359-380 *)
evaluateIndexExpression(e, st) ==
    LET arrayVar == Run("evaluate", e.array, st) IN
    IF arrayVar.sig # "ok" THEN arrayVar ELSE
    LET ix == Run("evaluate", e.index, arrayVar.st) IN
    IF ix.sig # "ok" THEN ix
    ELSE IF ix.v.t # "int" THEN Err(ix.st, BadVariantAccess)
    ELSE IF arrayVar.v.t = "ivec" THEN
        IF InBounds(ix.v.i, Len(arrayVar.v.ia))
        THEN Ok(ix.st, IntV(arrayVar.v.ia[ix.v.i + 1]))
        ELSE Err(ix.st, "Index out of bounds")
    ELSE IF arrayVar.v.t = "svec" THEN
        IF InBounds(ix.v.i, Len(arrayVar.v.sa))
        THEN Ok(ix.st, StrV(arrayVar.v.sa[ix.v.i + 1]))
        ELSE Err(ix.st, "Index out of bounds")
    ELSE Err(ix.st, "Variable is not an array")

(* lines 413-416: the arguments are evaluated in the caller's variables and
   bound in localVariables, the copy taken before the first argument;
   the result carries localVariables in v *)
BindArguments(n, st) ==
    IF n.j > Len(n.ps) THEN [st |-> st, sig |-> "ok", v |-> n.local, msg |-> ""]
    ELSE LET r == Run("evaluate", n.as[n.j], st) IN
         IF r.sig # "ok" THEN r
         ELSE Run("arguments",
                  [n EXCEPT !.j = @ + 1,
                            !.local = Put(@, n.ps[n.j], [value |-> r.v, isConstant |-> FALSE])],
                  r.st)

(* lines 403-429 *)
evaluateFunctionCallExpression(e, st) ==
    IF e.functionName \notin DOMAIN st.functions
    THEN Err(st, "Undefined function: " \o e.functionName)
    ELSE
    LET function == st.functions[e.functionName] IN
    IF ~ArityMatches(function.parameters, e.arguments)
    THEN Err(st, "Function " \o e.functionName \o " called with incorrect number of arguments")
    ELSE
    LET b == Run("arguments", [ps |-> function.parameters, as |-> e.arguments, j |-> 1,
                               local |-> st.variables], st) IN
    IF b.sig # "ok" THEN b
    ELSE IF b.st.fuel = 0 THEN Hang(b.st)
    ELSE
    LET oldVariables == b.st.variables
        entered == [b.st EXCEPT !.variables = b.v,
                                !.depth = @ + 1,
                                !.fuel = @ - 1,
                                !.active = Append(@, e.functionName),
                                !.trace = Append(@, [ev |-> "callEnter", depth |-> b.st.depth + 1,
                                                     name |-> e.functionName])]
        run == Run("statements", [ss |-> function.body, j |-> 1], entered) IN
    IF run.sig \in {"hang", "crash"} THEN run
    ELSE
    LET restored == RestoreCaller(oldVariables, run.st.variables)
        result == IF run.sig = "return" THEN run.v ELSE IntV(0)
        left == [run.st EXCEPT
                    !.variables = restored,
                    !.functions = FunctionsAfterCall(b.st.functions, @),
                    !.depth = @ - 1,
                    !.active = SubSeq(@, 1, Len(@) - 1),
                    !.freed = @ \ {run.st.depth},
                    !.trace = Append(@, [ev |-> "callDone", depth |-> run.st.depth,
                                         name |-> e.functionName,
                                         how |-> IF run.sig = "return" THEN "return" ELSE "end",
                                         v |-> result,
                                         before |-> oldVariables,
                                         inner |-> run.st.variables,
                                         after |-> restored])] IN
    Ok(left, result)

(* lines 159-187 *)
evaluate(e, st) ==
    CASE e.k = "Number" -> Ok(st, evaluateNumberExpression(e))
      [] e.k = "String" -> Ok(st, e.value)
      [] e.k = "Bool" -> Ok(st, e.value)
      [] e.k = "Variable" ->
            IF e.name \in DOMAIN st.variables
            THEN Ok(st, st.variables[e.name].value)
            ELSE Err(st, "Undefined variable: " \o e.name)
      [] e.k = "Binary" -> evaluateBinaryExpression(e, st)
      [] e.k = "Index" -> evaluateIndexExpression(e, st)
      [] e.k = "Array" -> evaluateArrayExpression(e, st)
      [] e.k = "FunctionCall" -> evaluateFunctionCallExpression(e, st)
      [] OTHER -> Err(st, "Unsupported expression type")

(* the for loops over a statement list (lines 123-125 and 420-422) *)
ExecuteStatements(n, st) ==
    IF n.j > Len(n.ss) THEN Normal(st)
    ELSE LET r == Run("execute", n.ss[n.j], st) IN
         IF r.sig # "normal" THEN r
         ELSE IF n.j < Len(n.ss) /\ r.st.depth \in r.st.freed
         THEN LET read == Log(r.st, [ev |-> "useAfterFree", depth |-> r.st.depth]) IN
              IF r.st.ub = "crash" THEN Crash(read)
              ELSE Run("statements", [n EXCEPT !.j = @ + 1], read)
         ELSE Run("statements", [n EXCEPT !.j = @ + 1], r.st)

(* lines 115-118 *)
WhileLoop(s, st) ==
    LET c == Run("evaluate", s.condition, st) IN
    IF c.sig # "ok" THEN c
    ELSE IF c.v.t # "bool" THEN Err(c.st, BadVariantAccess)
    ELSE IF c.v.i = 0 THEN Normal(c.st)
    ELSE IF c.st.fuel = 0 THEN Hang(c.st)
    ELSE LET b == Run("execute", s.body, [c.st EXCEPT !.fuel = @ - 1]) IN
         IF b.sig = "normal" THEN Run("while", s, b.st) ELSE b

(* lines 111-114 *)
ForLoop(s, st) ==
    LET c == Run("evaluate", s.condition, st) IN
    IF c.sig # "ok" THEN c
    ELSE IF c.v.t # "bool" THEN Err(c.st, BadVariantAccess)
    ELSE IF c.v.i = 0 THEN Normal(c.st)
    ELSE IF c.st.fuel = 0 THEN Hang(c.st)
    ELSE LET b == Run("execute", s.body, [c.st EXCEPT !.fuel = @ - 1]) IN
         IF b.sig # "normal" THEN b
         ELSE LET i == Run("execute", s.increment, b.st) IN
              IF i.sig = "normal" THEN Run("for", s, i.st) ELSE i

(* the try block of execute() (lines 73-151), include statements excepted *)
TryBlock(s, st) ==
    CASE s.k = "Write" ->
            LET r == Run("evaluate", s.messageExpr, st) IN
            IF r.sig = "ok" THEN Normal([r.st EXCEPT !.out = Append(@, printValue(r.v))]) ELSE r
      [] s.k = "VarDecl" ->
            IF s.name \in DOMAIN st.variables /\ st.variables[s.name].isConstant
            THEN Err(st, "Cannot reassign constant variable: " \o s.name)
            ELSE IF s.initializer.k # "nullexpr" THEN
                LET r == Run("evaluate", s.initializer, st) IN
                IF r.sig # "ok" THEN r
                ELSE Normal([r.st EXCEPT !.variables =
                                Put(@, s.name, [value |-> r.v, isConstant |-> s.type = "const"])])
            ELSE IF s.type = "int" THEN
                Normal([st EXCEPT !.variables = Put(@, s.name, [value |-> IntV(0), isConstant |-> FALSE])])
            ELSE IF s.type = "str" THEN
                Normal([st EXCEPT !.variables = Put(@, s.name, [value |-> StrV(""), isConstant |-> FALSE])])
            ELSE IF s.type = "bool" THEN
                Normal([st EXCEPT !.variables = Put(@, s.name, [value |-> BoolV(FALSE), isConstant |-> FALSE])])
            ELSE Normal(st)
      [] s.k = "FuncDecl" ->
            IF CanCloneStatements(s.body, 1)
            THEN Normal([st EXCEPT
                            !.functions = Put(@, s.name, [parameters |-> s.parameters,
                                                          body |-> cloneStatements(s.body)]),
                            !.freed = @ \cup {d \in 1..Len(st.active) : st.active[d] = s.name}])
            ELSE Err(st, "Unsupported statement type")
      [] s.k = "If" ->
            LET c == Run("evaluate", s.condition, st) IN
            IF c.sig # "ok" THEN c
            ELSE IF c.v.t # "bool" THEN Err(c.st, BadVariantAccess)
            ELSE IF c.v.i = 1 THEN Run("execute", s.thenBranch, c.st)
            ELSE IF s.elseBranch.k # "null" THEN Run("execute", s.elseBranch, c.st)
            ELSE Normal(c.st)
      [] s.k = "For" ->
            LET i == Run("execute", s.initializer, st) IN
            IF i.sig = "normal" THEN Run("for", s, i.st) ELSE i
      [] s.k = "While" -> Run("while", s, st)
      [] s.k = "Return" ->
            LET r == Run("evaluate", s.expression, st) IN
            IF r.sig # "ok" THEN r
            ELSE [st |-> Log(r.st, [ev |-> "throwReturn", depth |-> r.st.depth, v |-> r.v]),
                  sig |-> "return", v |-> r.v, msg |-> "Return"]
      [] s.k = "Block" -> Run("statements", [ss |-> s.statements, j |-> 1], st)
      [] OTHER -> Normal(st)

(* lines 72-157; a nullptr statement matches no dynamic_cast and does nothing *)
execute(s, st) ==
    IF s.k = "null" THEN Normal(st)
    ELSE CatchHandlers(TryBlock(s, Log(st, [ev |-> "exec", nest |-> st.nest,
                                                 depth |-> st.depth, kind |-> s.k])))

(* an execute() called from inside another execute() or from a call *)
ExecuteNested(s, st) ==
    LET r == execute(s, [st EXCEPT !.nest = @ + 1]) IN
    [r EXCEPT !.st.nest = st.nest]

Run(what, node, st) ==
    CASE what = "evaluate" -> evaluate(node, st)
      [] what = "interpret" -> execute(node, st)
      [] what = "execute" -> ExecuteNested(node, st)
      [] what = "statements" -> ExecuteStatements(node, st)
      [] what = "while" -> WhileLoop(node, st)
      [] what = "for" -> ForLoop(node, st)
      [] what = "elements" -> evaluateElements(node, st)
      [] what = "arguments" -> BindArguments(node, st)

(* execute() as interpret() calls it, and evaluate() *)
Execute(s, st) == Run("interpret", s, st)

Evaluate(e, st) == Run("evaluate", e, st)

(***************************************************************************)
(* Program families.  Each pool lists the top-level nodes parse() can      *)
(* return for one family of source files; a run executes any sequence of   *)
(* them.  Bodies and blocks go through castToStatement, as in the parser.  *)
(* parseExpression (part_007 440-455) knows no precedence and no           *)
(* parentheses: a binary expression has any expression on its left and a   *)
(* primary on its right, and every node below has that shape.              *)
(***************************************************************************)
Body(nodes) == [j \in 1..Len(nodes) |-> castToStatement(nodes[j])]

Less(a, b) == Bin(a, "<", b)
Minus(a, b) == Bin(a, "-", b)
Plus(a, b) == Bin(a, "+", b)
Set(target, e) == Bin(target, "=", e)

(* family 1: declarations and assignments *)
BindingPool == <<
    parseLetDeclaration("let", "x", Num(1)),                      \* let x = 1;
    parseLetDeclaration("let", "x", Num(2)),                      \* let x = 2;
    parseLetDeclaration("const", "c", Num(1)),                    \* const c = 1;
    parseLetDeclaration("let", "c", Num(2)),                      \* let c = 2;
    parseLetDeclaration("const", "c", Num(3)),                    \* const c = 3;
    parseLetDeclaration("const", "d", Arr(<<Num(1), Num(2)>>)),   \* const d = [1, 2];
    WriteStatement(Set(Var("c"), Num(4))),                        \* write(c = 4);
    WriteStatement(Set(Idx(Var("d"), Num(0)), Num(5))),           \* write(d[0] = 5);
    parseExpressionStatement(Set(Var("c"), Num(5))),              \* c = 5;
    WriteStatement(Var("c")),                                     \* write(c);
    WriteStatement(Var("y")) >>                                   \* write(y);

(* family 2: array indexing *)
IndexPool == <<
    parseLetDeclaration("let", "a", Arr(<<Num(1), Num(2)>>)),     \* let a = [1, 2];
    parseLetDeclaration("let", "s", Arr(<<Str("p")>>)),           \* let s = ["p"];
    WriteStatement(Idx(Var("a"), Minus(Num(0), Num(1)))),         \* write(a[0 - 1]);
    WriteStatement(Idx(Var("a"), Num(0))),                        \* write(a[0]);
    WriteStatement(Idx(Var("a"), Num(1))),                        \* write(a[1]);
    WriteStatement(Idx(Var("a"), Num(2))),                        \* write(a[2]);
    WriteStatement(Idx(Var("s"), Num(1))),                        \* write(s[1]);
    WriteStatement(Set(Idx(Var("a"), Minus(Num(0), Num(1))), Num(7))),  \* write(a[0 - 1] = 7);
    WriteStatement(Set(Idx(Var("a"), Num(1)), Num(8))),           \* write(a[1] = 8);
    WriteStatement(Set(Idx(Var("a"), Num(2)), Num(9))),           \* write(a[2] = 9);
    WriteStatement(Set(Idx(Var("s"), Num(0)), Str("z"))),         \* write(s[0] = "z");
    WriteStatement(Set(Idx(Var("s"), Num(1)), Str("z"))) >>       \* write(s[1] = "z");

(* family 3: several bindings of one array *)
AliasPool == <<
    parseLetDeclaration("let", "a", Arr(<<Num(1), Num(2)>>)),     \* let a = [1, 2];
    parseLetDeclaration("let", "b", Var("a")),                    \* let b = a;
    parseLetDeclaration("let", "t", Arr(<<Str("p"), Str("q")>>)), \* let t = ["p", "q"];
    parseLetDeclaration("let", "u", Var("t")),                    \* let u = t;
    WriteStatement(Set(Idx(Var("a"), Num(0)), Num(7))),           \* write(a[0] = 7);
    WriteStatement(Set(Idx(Var("b"), Num(1)), Num(5))),           \* write(b[1] = 5);
    WriteStatement(Set(Idx(Var("u"), Num(0)), Str("z"))),         \* write(u[0] = "z");
    \* func put(p) { write(p[0] = 6); return p; }
    FunctionDeclaration("put", <<"p">>, Body(<<
        WriteStatement(Set(Idx(Var("p"), Num(0)), Num(6))),
        ReturnStatement(Var("p")) >>)),
    WriteStatement(Call("put", <<Var("a")>>)),                    \* write(put(a));
    WriteStatement(Var("a")) >>                                   \* write(a);

(* family 4: function calls *)
CallPool == <<
    parseLetDeclaration("let", "x", Num(1)),                      \* let x = 1;
    \* func g(p) { let x = 9; let y = 3; if (p < 1) { return x; } write("g"); return p; }
    FunctionDeclaration("g", <<"p">>, Body(<<
        parseLetDeclaration("let", "x", Num(9)),
        parseLetDeclaration("let", "y", Num(3)),
        IfStatement(Less(Var("p"), Num(1)),
                    BlockStatement(Body(<<ReturnStatement(Var("x"))>>)), NullStmt),
        WriteStatement(Str("g")),
        ReturnStatement(Var("p")) >>)),
    \* func f(x) { write(g(0)); write(x = 2); return g(x) + x; }
    FunctionDeclaration("f", <<"x">>, Body(<<
        WriteStatement(Call("g", <<Num(0)>>)),
        WriteStatement(Set(Var("x"), Num(2))),
        ReturnStatement(Plus(Call("g", <<Var("x")>>), Var("x"))) >>)),
    \* func w(n) { while (0 < 1) { if (0 < n) { return n; } return 0; } write("w"); }
    FunctionDeclaration("w", <<"n">>, Body(<<
        WhileStatement(Less(Num(0), Num(1)), BlockStatement(Body(<<
            IfStatement(Less(Num(0), Var("n")),
                        BlockStatement(Body(<<ReturnStatement(Var("n"))>>)), NullStmt),
            ReturnStatement(Num(0)) >>))),
        WriteStatement(Str("w")) >>)),
    \* func r(n) { if (n < 1) { return 0; } return r(n - 1) + n; }
    FunctionDeclaration("r", <<"n">>, Body(<<
        IfStatement(Less(Var("n"), Num(1)),
                    BlockStatement(Body(<<ReturnStatement(Num(0))>>)), NullStmt),
        ReturnStatement(Plus(Call("r", <<Minus(Var("n"), Num(1))>>), Var("n"))) >>)),
    \* func e(p) { let z = p; write(z = 6); }
    FunctionDeclaration("e", <<"p">>, Body(<<
        parseLetDeclaration("let", "z", Var("p")),
        WriteStatement(Set(Var("z"), Num(6))) >>)),
    WriteStatement(Call("f", <<Var("x")>>)),                      \* write(f(x));
    WriteStatement(Call("w", <<Num(1)>>)),                        \* write(w(1));
    WriteStatement(Call("r", <<Num(2)>>)),                        \* write(r(2));
    WriteStatement(Call("e", <<Num(5)>>)) >>                      \* write(e(5));

(* family 5: failing statements *)
ErrorPool == <<
    \* func g() { write("side"); return 1 < 2; }
    FunctionDeclaration("g", <<>>, Body(<<
        WriteStatement(Str("side")),
        ReturnStatement(Less(Num(1), Num(2))) >>)),
    \* write(2 < 1 && g());
    WriteStatement(Bin(Less(Num(2), Num(1)), "&&", Call("g", <<>>))),
    \* write(1 < 2 || g());
    WriteStatement(Bin(Less(Num(1), Num(2)), "||", Call("g", <<>>))),
    \* if (1 < 2) { write(1 / 0); write("next"); }
    IfStatement(Less(Num(1), Num(2)), BlockStatement(Body(<<
        WriteStatement(Bin(Num(1), "/", Num(0))),
        WriteStatement(Str("next")) >>)), NullStmt),
    parseLetDeclaration("let", "i", Num(0)),                      \* let i = 0;
    \* while (i < 2) { write(q); let i = i + 1; }
    WhileStatement(Less(Var("i"), Num(2)), BlockStatement(Body(<<
        WriteStatement(Var("q")),
        parseLetDeclaration("let", "i", Plus(Var("i"), Num(1))) >>))),
    \* for (let j = 0;; j < 2; j = 2;) { let j = j + 1; }
    ForStatement(castToStatement(parseLetDeclaration("let", "j", Num(0))),
                 Less(Var("j"), Num(2)),
                 castToStatement(parseExpressionStatement(Set(Var("j"), Num(2)))),
                 BlockStatement(Body(<<
                     parseLetDeclaration("let", "j", Plus(Var("j"), Num(1))) >>))),
    \* func bad(p) { write(p / 0); write("after"); return 7; }
    FunctionDeclaration("bad", <<"p">>, Body(<<
        WriteStatement(Bin(Var("p"), "/", Num(0))),
        WriteStatement(Str("after")),
        ReturnStatement(Num(7)) >>)),
    WriteStatement(Call("bad", <<Num(1)>>)),                      \* write(bad(1));
    WriteStatement(Bin(Num(1), "/", Num(0))),                     \* write(1 / 0);
    ReturnStatement(Num(1)) >>                                    \* return 1;

(* while (i < n) { write(i); i = i + 1; }: the second statement of the body is
   an expression statement, which parseBlock turns into nullptr *)
CountLoop(n) ==
    WhileStatement(Less(Var("i"), Num(n)), BlockStatement(Body(<<
        WriteStatement(Var("i")),
        parseExpressionStatement(Plus(Set(Var("i"), Var("i")), Num(1))) >>)))

(* family 6: counting loops *)
LoopPool == <<
    parseLetDeclaration("let", "i", Num(0)),                      \* let i = 0;
    CountLoop(0),
    CountLoop(1),
    CountLoop(2),
    WriteStatement(Var("i")) >>                                   \* write(i);

(* family 7: a recursive function and its calls with the arguments 0..MaxFuel *)
FactPool ==
    \* func fact(k) { if (k <= 1) { return 1; } return k * fact(k - 1); }
    << FunctionDeclaration("fact", <<"k">>, Body(<<
           IfStatement(Bin(Var("k"), "<=", Num(1)),
                       BlockStatement(Body(<<ReturnStatement(Num(1))>>)), NullStmt),
           ReturnStatement(Bin(Var("k"), "*", Call("fact", <<Minus(Var("k"), Num(1))>>))) >>)) >>
    \o [j \in 1..(MaxFuel + 1) |-> WriteStatement(Call("fact", <<Num(j - 1)>>))]  \* write(fact(n));

(* family 8: calls that do not match a declaration *)
ArityPool == <<
    parseLetDeclaration("let", "x", Num(1)),                      \* let x = 1;
    \* func g(p) { write(p); return p; }
    FunctionDeclaration("g", <<"p">>, Body(<<
        WriteStatement(Var("p")),
        ReturnStatement(Var("p")) >>)),
    WriteStatement(Call("g", <<>>)),                              \* write(g());
    WriteStatement(Call("g", <<Set(Var("x"), Num(5)), Num(2)>>)), \* write(g(x = 5, 2));
    WriteStatement(Call("h", <<Set(Var("x"), Num(5))>>)),         \* write(h(x = 5));
    WriteStatement(Call("g", <<Set(Var("x"), Num(5))>>)),         \* write(g(x = 5));
    WriteStatement(Var("x")) >>                                   \* write(x);

(* family 9: a function that declares its own name again while it runs *)
RedeclarePool == <<
    \* func f() { func f() { write(1); } write(2); }
    FunctionDeclaration("f", <<>>, Body(<<
        FunctionDeclaration("f", <<>>, Body(<<WriteStatement(Num(1))>>)),
        WriteStatement(Num(2)) >>)),
    \* func h() { write(3); func h() { write(4); } }
    FunctionDeclaration("h", <<>>, Body(<<
        WriteStatement(Num(3)),
        FunctionDeclaration("h", <<>>, Body(<<WriteStatement(Num(4))>>)) >>)),
    WriteStatement(Call("f", <<>>)),                              \* write(f());
    WriteStatement(Call("h", <<>>)) >>                            \* write(h());

(* family 10: assignments whose right-hand side has an effect or fails.
   The declaration of type "const" and `x = 1 / 0` with the quotient on the
   right are the trees the parser of part_006 builds (line 628, lines 396-450) *)
EffectPool == <<
    parseLetDeclaration("let", "x", Num(1)),                      \* let x = 1;
    VariableDeclaration("const", "c", Num(1), "const"),           \* const c = 1;
    parseLetDeclaration("let", "a", Arr(<<Num(1), Num(2)>>)),     \* let a = [1, 2];
    \* func g() { write("side"); let x = 9; return 2; }
    FunctionDeclaration("g", <<>>, Body(<<
        WriteStatement(Str("side")),
        parseLetDeclaration("let", "x", Num(9)),
        ReturnStatement(Num(2)) >>)),
    WriteStatement(Set(Var("x"), Call("g", <<>>))),               \* write(x = g());
    WriteStatement(Set(Var("c"), Call("g", <<>>))),               \* write(c = g());
    WriteStatement(Set(Var("y"), Num(2))),                        \* write(y = 2);
    WriteStatement(Set(Idx(Var("x"), Num(0)), Num(2))),           \* write(x[0] = 2);
    WriteStatement(Set(Idx(Var("a"), Num(2)), Num(3))),           \* write(a[2] = 3);
    WriteStatement(Set(Idx(Var("a"), Num(1)), Str("z"))),         \* write(a[1] = "z");
    WriteStatement(Set(Var("x"), Bin(Num(1), "/", Num(0)))) >>    \* write(x = 1 / 0);

(* family 11: a function declared by a statement of another function's body *)
NestedPool == <<
    \* func outer() { func inner() { return 7; } return 1; }
    FunctionDeclaration("outer", <<>>, Body(<<
        FunctionDeclaration("inner", <<>>, Body(<<ReturnStatement(Num(7))>>)),
        ReturnStatement(Num(1)) >>)),
    \* func inner() { return 3; }
    FunctionDeclaration("inner", <<>>, Body(<<ReturnStatement(Num(3))>>)),
    \* func inner() { return 5; }
    FunctionDeclaration("inner", <<>>, Body(<<ReturnStatement(Num(5))>>)),
    WriteStatement(Call("outer", <<>>)),                          \* write(outer());
    WriteStatement(Call("inner", <<>>)) >>                        \* write(inner());

Pools == <<BindingPool, IndexPool, AliasPool, CallPool, ErrorPool, LoopPool, FactPool, ArityPool,
           RedeclarePool, EffectPool, NestedPool>>

Pool == Pools[family]

(***************************************************************************)
(* main (src/FoxL.cpp) and Interpreter::interpret.                         *)
(***************************************************************************)
Init ==
    /\ family \in 1..Len(Pools)
    /\ variables = EmptyMap
    /\ functions = EmptyMap
    /\ out = <<>>
    /\ err = <<>>
    /\ status = "running"
    /\ nsteps = 0
    /\ last = NullStmt
    /\ trace = <<>>
    /\ constDecl = {}
    /\ source = <<>>
    /\ position = 0
    /\ line = 1
    /\ tokens = <<>>
    /\ lexed = "none"
    /\ currentToken = NoToken
    /\ built = <<>>
    /\ parsed = "none"
    /\ peeked = NoToken
    /\ original = NullNode
    /\ cloned = NotCloned
    /\ pending = <<>>

Entry == [variables |-> variables, functions |-> functions, out |-> out, err |-> err,
          trace |-> <<>>, depth |-> 0, nest |-> 0, fuel |-> MaxFuel,
          active |-> <<>>, freed |-> {}, ub |-> "stale"]

(* what a read of freed memory can do *)
UseAfterFree == {"stale", "crash"}

(* execute(statement.get()) in a run where reads of freed memory do ub *)
RunFrom(node, ub) == Execute(node, [Entry EXCEPT !.ub = ub])

(* main's catch reports the exception that left interpret() (FoxL.cpp 34-37) *)
ErrAfter(r) == IF r.sig = "return" THEN Append(r.st.err, "Error: " \o r.msg) ELSE r.st.err

StatusAfter(r) ==
    CASE r.sig = "return" -> "exit1"
      [] r.sig = "hang" -> "hung"
      [] r.sig = "crash" -> "crashed"
      [] OTHER -> "running"

(* the top-level binding of node's name is created by a `const` declaration *)
CreatesConst(node, after) ==
    /\ node.k = "VarDecl"
    /\ node.keyword = "const"
    /\ node.name \notin DOMAIN variables
    /\ node.name \in DOMAIN after

(* one iteration of interpret()'s loop on a Statement node (lines 27-31);
   a ReturnException that leaves execute() reaches main's catch (FoxL.cpp 34-37) *)
Interpret(node) ==
    /\ status = "running"
    /\ nsteps < MaxSteps
    /\ \E ub \in UseAfterFree :
       LET r == RunFrom(node, ub) IN
       /\ variables' = r.st.variables
       /\ functions' = r.st.functions
       /\ out' = r.st.out
       /\ trace' = r.st.trace
       /\ err' = ErrAfter(r)
       /\ status' = StatusAfter(r)
       /\ constDecl' = IF CreatesConst(node, r.st.variables)
                       THEN constDecl \cup {node.name} ELSE constDecl
    /\ nsteps' = nsteps + 1
    /\ last' = node
    /\ UNCHANGED <<family, lexVars, parseVars, cloneVars, pending>>

OfKind(kind) == {j \in 1..Len(Pool) : Pool[j].k = kind}

Declare == \E j \in OfKind("VarDecl") : Interpret(Pool[j])

Write == \E j \in OfKind("Write") : Interpret(Pool[j])

DeclareFunction == \E j \in OfKind("FuncDecl") : Interpret(Pool[j])

If == \E j \in OfKind("If") : Interpret(Pool[j])

While == \E j \in OfKind("While") : Interpret(Pool[j])

For == \E j \in OfKind("For") : Interpret(Pool[j])

Return == \E j \in OfKind("Return") : Interpret(Pool[j])

(* main's loop keeps only the nodes that are Statements (FoxL.cpp 25-30):
   a bare expression node is parsed and then discarded, never executed *)
DropExpression ==
    \E j \in 1..Len(Pool) :
        /\ IsExpression(Pool[j])
        /\ status = "running"
        /\ nsteps < MaxSteps
        /\ nsteps' = nsteps + 1
        /\ last' = Pool[j]
        /\ trace' = <<>>
        /\ UNCHANGED <<family, variables, functions, out, err, status, constDecl, lexVars, parseVars, cloneVars, pending>>

(* interpret() returned: main returns 0 (FoxL.cpp 39) *)
Finish ==
    /\ status = "running"
    /\ status' = "exit0"
    /\ UNCHANGED <<family, variables, functions, out, err, nsteps, last, trace, constDecl, lexVars, parseVars, cloneVars, pending>>

Next ==
    \/ Declare
    \/ Write
    \/ DeclareFunction
    \/ If
    \/ While
    \/ For
    \/ Return
    \/ DropExpression
    \/ Finish

Spec == Init /\ [][Next]_vars

(***************************************************************************)
(* The lexer (src/FoxL/cloner.cpp, lines 299-478).  The source is a        *)
(* sequence of characters; a character is a string of length one.  The     *)
(* character after the last one, which std::string::operator[] gives as    *)
(* '\0', is "NUL".  The letters are those of the modelled sources, the    *)
(* only digit is 1; characters with the high bit set are not modelled.     *)
(***************************************************************************)
(* the characters the sources of LexSpec are made of *)
Alphabet == {"i", "n", "1", " ", "\n", "\"", "\\", "/", "=", "^", ";", "#"}

At(src, pos) == IF pos < Len(src) THEN src[pos + 1] ELSE "NUL"

isspace(ch) == ch \in {" ", "\n", "\t"}

isalpha(ch) ==
    ch \in {"a", "c", "d", "e", "f", "h", "i", "l", "m", "n", "o", "r", "t", "u", "w"}

isdigit(ch) == ch \in {"1"}

isIdentifierStart(ch) == isalpha(ch)

isIdentifierPart(ch) == isalpha(ch) \/ isdigit(ch) \/ ch = "_"

isStringStart(ch) == ch = "\"" \/ ch = "'"

isOperator(ch) == ch \in {"+", "-", "*", "/", "%", "=", "&", "|", "<", ">", "!", "^"}

isSymbol(ch) == ch \in {";", "(", ")", "{", "}", "[", "]", ",", ":", ".", "@"}

(* source.substr(position, 2) is one of the two-character operators *)
isTwoCharOperator(src, pos) ==
    /\ pos + 1 < Len(src)
    /\ <<At(src, pos), At(src, pos + 1)>> \in
        { <<"=", "=">>, <<"!", "=">>, <<"<", "=">>, <<">", "=">>, <<"&", "&">>, <<"|", "|">>,
          <<"+", "+">>, <<"-", "-">>, <<"+", "=">>, <<"-", "=">>, <<"*", "=">>, <<"/", "=">>,
          <<"%", "=">>, <<"&", "=">>, <<"|", "=">>, <<"^", "=">>, <<"<", "<">>, <<">", ">">> }

isCommentStart(src, pos) ==
    At(src, pos) = "/" /\ pos + 1 < Len(src) /\ At(src, pos + 1) = "/"

isKeyword(str) ==
    str \in
        { <<"i", "f">>, <<"e", "l", "s", "e">>, <<"w", "h", "i", "l", "e">>,
          <<"r", "e", "t", "u", "r", "n">>, <<"w", "r", "i", "t", "e">>, <<"r", "e", "a", "d">>,
          <<"f", "o", "r">>, <<"i", "n", "c", "l", "u", "d", "e">>, <<"l", "e", "t">>,
          <<"c", "o", "n", "s", "t">>, <<"f", "u", "n", "c", "t", "i", "o", "n">>,
          <<"c", "l", "a", "s", "s">>, <<"p", "u", "b", "l", "i", "c">>,
          <<"p", "r", "i", "v", "a", "t", "e">>, <<"p", "r", "o", "t", "e", "c", "t", "e", "d">>,
          <<"i", "n">>, <<"f", "r", "o", "m">> }

parseEscapeCharacter(ch) ==
    CASE ch = "n" -> "\n"
      [] ch = "t" -> "\t"
      [] OTHER -> ch

(* a token; `start` is the position of its first character, kept to state
   properties about `line` *)
Token(type, value, ln, start) == [type |-> type, value |-> value, line |-> ln, start |-> start]

Returned(tok, pos, ln) == [result |-> "token", token |-> tok, position |-> pos, line |-> ln]

Thrown(pos, ln) ==
    [result |-> "error", token |-> Token("Unknown", <<>>, ln, pos), position |-> pos, line |-> ln]

(* lines 346-353 *)
RECURSIVE handleWhitespace(_, _, _)
handleWhitespace(src, pos, ln) ==
    IF pos < Len(src) /\ isspace(At(src, pos))
    THEN handleWhitespace(src, pos + 1, IF At(src, pos) = "\n" THEN ln + 1 ELSE ln)
    ELSE [position |-> pos, line |-> ln]

(* lines 360-362: the characters up to the end of the line *)
RECURSIVE EndOfLine(_, _)
EndOfLine(src, pos) ==
    IF pos < Len(src) /\ At(src, pos) # "\n" THEN EndOfLine(src, pos + 1) ELSE pos

(* lines 359-367 *)
skipSingleLineComment(src, pos, ln) ==
    LET end == EndOfLine(src, pos) IN
    IF end < Len(src) /\ At(src, end) = "\n"
    THEN [position |-> end + 1, line |-> ln + 1]
    ELSE [position |-> end, line |-> ln]

(* lines 411-413 *)
RECURSIVE EndOfIdentifier(_, _)
EndOfIdentifier(src, pos) ==
    IF pos < Len(src) /\ isIdentifierPart(At(src, pos)) THEN EndOfIdentifier(src, pos + 1) ELSE pos

(* lines 409-421 *)
lexIdentifierOrKeyword(src, pos, ln) ==
    LET end == EndOfIdentifier(src, pos)
        value == SubSeq(src, pos + 1, end)
    IN  Returned(Token(IF isKeyword(value) THEN "Keyword" ELSE "Identifier", value, ln, pos),
                 end, ln)

(* lines 426-431 *)
RECURSIVE EndOfNumber(_, _, _)
EndOfNumber(src, pos, hasDot) ==
    IF pos < Len(src) /\ (isdigit(At(src, pos)) \/ (At(src, pos) = "." /\ ~hasDot))
    THEN EndOfNumber(src, pos + 1, hasDot \/ At(src, pos) = ".")
    ELSE pos

(* lines 423-433 *)
lexNumber(src, pos, ln) ==
    LET end == EndOfNumber(src, pos, FALSE)
    IN  Returned(Token("Number", SubSeq(src, pos + 1, end), ln, pos), end, ln)

(* lines 435-444 *)
lexOperator(src, pos, ln) ==
    IF isTwoCharOperator(src, pos)
    THEN Returned(Token("Operator", SubSeq(src, pos + 1, pos + 2), ln, pos), pos + 2, ln)
    ELSE Returned(Token("Operator", <<At(src, pos)>>, ln, pos), pos + 1, ln)

(* a lexSymbol that leaves the cursor where it was *)
lexSymbolInPlace(src, pos, ln) ==
    Returned(Token("Symbol", <<At(src, pos)>>, ln, pos), pos, ln)

(* lines 446-448 *)
lexSymbol(src, pos, ln) ==
    Returned(Token("Symbol", <<At(src, pos)>>, ln, pos), pos + 1, ln)

(* the loop of lexStringLiteral (lines 454-462): the position it ends at and
   the value collected *)
RECURSIVE StringBody(_, _, _, _)
StringBody(src, pos, quoteType, value) ==
    IF pos < Len(src) /\ At(src, pos) # quoteType
    THEN IF At(src, pos) = "\\"
         THEN StringBody(src, pos + 2, quoteType,
                         Append(value, parseEscapeCharacter(At(src, pos + 1))))
         ELSE StringBody(src, pos + 1, quoteType, Append(value, At(src, pos)))
    ELSE [position |-> pos, value |-> value]

(* lines 450-470: `line` is not touched *)
lexStringLiteral(src, pos, ln, quoteType) ==
    LET body == StringBody(src, pos + 1, quoteType, <<>>) IN
    IF body.position >= Len(src)
    THEN Thrown(body.position, ln)
    ELSE Returned(Token("StringLiteral", body.value, ln, pos), body.position + 1, ln)

(* lines 302-340 *)
RECURSIVE getNextToken(_, _, _)
getNextToken(src, pos, ln) ==
    IF pos < Len(src) THEN
        LET currentChar == At(src, pos) IN
        IF isspace(currentChar) THEN
            LET w == handleWhitespace(src, pos, ln) IN getNextToken(src, w.position, w.line)
        ELSE IF isCommentStart(src, pos) THEN
            LET c == skipSingleLineComment(src, pos, ln) IN getNextToken(src, c.position, c.line)
        ELSE IF isIdentifierStart(currentChar) THEN lexIdentifierOrKeyword(src, pos, ln)
        ELSE IF isdigit(currentChar) THEN lexNumber(src, pos, ln)
        ELSE IF isOperator(currentChar) THEN lexOperator(src, pos, ln)
        ELSE IF isSymbol(currentChar) THEN lexSymbol(src, pos, ln)
        ELSE IF isStringStart(currentChar) THEN lexStringLiteral(src, pos, ln, currentChar)
        ELSE Thrown(pos, ln)
    ELSE [result |-> "eof", token |-> Token("EndOfFile", <<>>, ln, pos),
          position |-> pos, line |-> ln]

(***************************************************************************)
(* A Lexer on a source, and the calls of getNextToken() made on it until   *)
(* one throws.  The calls go on after EndOfFile was returned.              *)
(***************************************************************************)
LexInit ==
    /\ source \in UNION {[1..n -> Alphabet] : n \in 0..MaxSource}
    /\ position = 0
    /\ line = 1
    /\ tokens = <<>>
    /\ lexed = "none"
    /\ currentToken = NoToken
    /\ built = <<>>
    /\ parsed = "none"
    /\ peeked = NoToken
    /\ original = NullNode
    /\ cloned = NotCloned
    /\ pending = <<>>
    /\ family = 1
    /\ variables = EmptyMap
    /\ functions = EmptyMap
    /\ out = <<>>
    /\ err = <<>>
    /\ status = "lexing"
    /\ nsteps = 0
    /\ last = NullStmt
    /\ trace = <<>>
    /\ constDecl = {}

NextToken(result) ==
    /\ lexed # "error"
    /\ Len(tokens) < MaxSource + 2
    /\ LET r == getNextToken(source, position, line) IN
       /\ r.result = result
       /\ position' = r.position
       /\ line' = r.line
       /\ lexed' = r.result
       /\ tokens' = IF r.result = "error" THEN tokens ELSE Append(tokens, r.token)
    /\ UNCHANGED <<source, evalVars, parseVars, cloneVars, pending>>

ReturnToken == NextToken("token")

ReturnEndOfFile == NextToken("eof")

Throw == NextToken("error")

LexNext ==
    \/ ReturnToken
    \/ ReturnEndOfFile
    \/ Throw

LexSpec == LexInit /\ [][LexNext]_vars

(***************************************************************************)
(* The parser (src/unnamed/part_006).  A parser state is the lexer's       *)
(* cursor, Parser::currentToken, the nodes built so far and whether the    *)
(* lexer has thrown.  A node is recorded as its class, its `line` and      *)
(* `first`, the line of the first token of the text it was built from.     *)
(* A parse function gives the state it leaves, whether it returned or      *)
(* threw, the class of the node it returned and that node's `first`.       *)
(* Modelled statements: assignment, write, read, while, include; no        *)
(* modelled source holds the keywords of the other statements.             *)
(***************************************************************************)
Parsed(p, kind, first) ==
    [p |-> p, ok |-> TRUE, kind |-> kind, first |-> first, op |-> <<>>]

ParseError(p) == [p |-> p, ok |-> FALSE, kind |-> "none", first |-> 0, op |-> <<>>]

(* std::make_unique<BinaryExpression>(op, left, right, ln); leftOp and rightOp
   are the operators of the operands that are themselves binary expressions *)
BuildBinary(p, op, leftOp, rightOp, ln, first) ==
    [p EXCEPT !.built = Append(@, [kind |-> "BinaryExpression", line |-> ln, first |-> first,
                                   op |-> op, leftOp |-> leftOp, rightOp |-> rightOp,
                                   name |-> <<>>])]

(* std::make_unique<kind>(..., ln) *)
Build(p, kind, ln, first) ==
    [p EXCEPT !.built = Append(@, [kind |-> kind, line |-> ln, first |-> first,
                                   op |-> <<>>, leftOp |-> <<>>, rightOp |-> <<>>,
                                   name |-> <<>>])]

(* lines 7-9 *)
advance(p) ==
    LET r == getNextToken(source, p.position, p.line) IN
    [p EXCEPT !.position = r.position, !.line = r.line, !.currentToken = r.token,
              !.thrown = @ \/ r.result = "error"]

(* currentToken.value == text *)
ValueIs(p, text) == p.currentToken.value = text

TypeIs(p, type) == p.currentToken.type = type

(* lines 385-394 *)
getPrecedence(op) ==
    CASE op = <<"|", "|">> -> 1
      [] op = <<"&", "&">> -> 2
      [] op \in {<<"=", "=">>, <<"!", "=">>} -> 3
      [] op \in {<<"<">>, <<"<", "=">>, <<">">>, <<">", "=">>} -> 4
      [] op \in {<<"+">>, <<"-">>} -> 5
      [] op \in {<<"*">>, <<"/">>} -> 6
      [] op \in {<<"+", "+">>, <<"-", "-">>} -> 7
      [] OTHER -> 0

RECURSIVE Parse(_, _, _)

(* a call of advance() *)
Consume(p) == Parse("advance", 0, p)

(* lines 452-493 *)
parsePrimary(p) ==
    LET ln == p.currentToken.line
        q == Consume(p)
    IN  CASE TypeIs(p, "Identifier") ->
               IF ValueIs(q, <<"+", "+">>) \/ ValueIs(q, <<"-", "-">>)
               THEN Parsed(Build(Build(Consume(q), "VariableExpression", ln, ln),
                                 "UnaryExpression", ln, ln),
                           "UnaryExpression", ln)
               ELSE Parsed(Build(q, "VariableExpression", ln, ln), "VariableExpression", ln)
          [] TypeIs(p, "Number") ->
               Parsed(Build(q, "NumberExpression", ln, ln), "NumberExpression", ln)
          [] TypeIs(p, "StringLiteral") ->
               Parsed(Build(q, "StringExpression", ln, ln), "StringExpression", ln)
          [] ValueIs(p, <<"(">>) ->
               LET expr == Parse("expression", 0, q) IN
               IF ~expr.ok THEN expr
               ELSE IF ~ValueIs(expr.p, <<")">>) THEN ParseError(expr.p)
               ELSE Parsed(Consume(expr.p), expr.kind, expr.first)
          [] OTHER -> ParseError(p)

(* the optional prompt and the ')' of read (lines 219-227, 179-187) *)
parseReadPrompt(p) ==
    LET prompt == IF TypeIs(p, "StringLiteral")
                  THEN Parse("expression", 0, p)
                  ELSE Parsed(p, "none", 0)
    IN  IF ~prompt.ok THEN prompt
        ELSE IF ~ValueIs(prompt.p, <<")">>) THEN ParseError(prompt.p)
        ELSE Parsed(Consume(prompt.p), "none", 0)

(* lines 210-230 *)
parseReadExpression(p) ==
    LET ln == p.currentToken.line
        q == Consume(p)
    IN  IF ~ValueIs(q, <<"(">>) THEN ParseError(q)
        ELSE LET r == parseReadPrompt(Consume(q)) IN
             IF ~r.ok THEN r
             ELSE Parsed(Build(r.p, "ReadExpression", ln, ln), "ReadExpression", ln)

(* the loop of lines 410-417; `left` is the class and first line of the
   expression parsed so far *)
parseBinaryOperators(left, p) ==
    IF TypeIs(p, "Operator") /\ getPrecedence(p.currentToken.value) >= left.min
    THEN LET right == Parse("expression", getPrecedence(p.currentToken.value) + 1, Consume(p)) IN
         IF ~right.ok THEN right
         ELSE LET q == BuildBinary(right.p, p.currentToken.value, left.op, right.op,
                                   right.p.currentToken.line, left.first)
              IN  Parse("operators",
                        [min |-> left.min, kind |-> "BinaryExpression", first |-> left.first,
                         op |-> p.currentToken.value], q)
    ELSE [Parsed(p, left.kind, left.first) EXCEPT !.op = left.op]

(* the loop of lines 424-434; it ends before the ')' *)
parseArguments(p) ==
    IF ~TypeIs(p, "Symbol") \/ ~ValueIs(p, <<")">>)
    THEN LET argument == Parse("expression", 0, p) IN
         IF ~argument.ok THEN argument
         ELSE IF ValueIs(argument.p, <<",">>) THEN Parse("arguments", 0, Consume(argument.p))
         ELSE IF ValueIs(argument.p, <<")">>) THEN Parsed(argument.p, "none", 0)
         ELSE ParseError(argument.p)
    ELSE Parsed(p, "none", 0)

(* lines 419-445 *)
parseCall(left) ==
    IF ValueIs(left.p, <<"(">>)
    THEN LET arguments == parseArguments(Consume(left.p)) IN
         IF ~arguments.ok THEN arguments
         ELSE LET q == Consume(arguments.p) IN
              IF left.kind # "VariableExpression" THEN ParseError(q)
              ELSE Parsed(Build(q, "FunctionCallExpression", q.currentToken.line, left.first),
                          "FunctionCallExpression", left.first)
    ELSE left

(* lines 396-450 *)
parseExpression(minPrecedence, p) ==
    IF (TypeIs(p, "Keyword") /\ ValueIs(p, <<"l", "e", "t">>)) THEN ParseError(p)
    ELSE IF (TypeIs(p, "Keyword") /\ ValueIs(p, <<"r", "e", "a", "d">>)) THEN parseReadExpression(p)
    ELSE LET left == parsePrimary(p) IN
         IF ~left.ok THEN left
         ELSE LET binary == parseBinaryOperators(
                                [min |-> minPrecedence, kind |-> left.kind, first |-> left.first,
                                 op |-> left.op],
                                left.p)
              IN  IF ~binary.ok THEN binary ELSE parseCall(binary)

(* lines 73-103 *)
parseAssignment(p) ==
    LET ln == p.currentToken.line
        q == Consume(p)
    IN  IF ~TypeIs(q, "Operator") THEN ParseError(q)
        ELSE LET rightExpr == Parse("expression", 0, Consume(q)) IN
             IF ~rightExpr.ok THEN rightExpr
             ELSE IF ~ValueIs(rightExpr.p, <<";">>) THEN ParseError(rightExpr.p)
             ELSE Parsed(Build(BuildBinary(Build(Consume(rightExpr.p), "VariableExpression", ln, ln),
                                           q.currentToken.value, <<>>, rightExpr.op, ln, ln),
                               "ExpressionStatement", ln, ln),
                         "ExpressionStatement", ln)

(* lines 146-168 *)
parseWriteStatement(p) ==
    LET ln == p.currentToken.line
        q == Consume(p)
    IN  IF ~ValueIs(q, <<"(">>) THEN ParseError(q)
        ELSE LET messageExpr == Parse("expression", 0, Consume(q)) IN
             IF ~messageExpr.ok THEN messageExpr
             ELSE IF ~ValueIs(messageExpr.p, <<")">>) THEN ParseError(messageExpr.p)
             ELSE LET r == Consume(messageExpr.p) IN
                  IF ~ValueIs(r, <<";">>) THEN ParseError(r)
                  ELSE Parsed(Build(Consume(r), "WriteStatement", ln, ln), "WriteStatement", ln)

(* lines 170-208 *)
parseReadStatement(p) ==
    LET ln == p.currentToken.line
        q == Consume(p)
    IN  IF ~ValueIs(q, <<"(">>) THEN ParseError(q)
        ELSE LET r == parseReadPrompt(Consume(q)) IN
             IF ~r.ok THEN r
             ELSE IF TypeIs(r.p, "Identifier")
             THEN LET t == Consume(r.p) IN
                  IF ~ValueIs(t, <<";">>) THEN ParseError(t)
                  ELSE Parsed(Build(Build(Consume(t), "VariableExpression", ln, ln),
                                    "ReadStatement", ln, ln),
                              "ReadStatement", ln)
             ELSE IF ~ValueIs(r.p, <<";">>) THEN ParseError(r.p)
             ELSE Parsed(Build(Consume(r.p), "ReadStatement", ln, ln), "ReadStatement", ln)

(* lines 281-299 *)
parseWhileStatement(p) ==
    LET ln == p.currentToken.line
        q == Consume(p)
    IN  IF ~ValueIs(q, <<"(">>) THEN ParseError(q)
        ELSE LET condition == Parse("expression", 0, Consume(q)) IN
             IF ~condition.ok THEN condition
             ELSE IF ~ValueIs(condition.p, <<")">>) THEN ParseError(condition.p)
             ELSE LET body == Parse("block", 0, Consume(condition.p)) IN
                  IF ~body.ok THEN body
                  ELSE Parsed(Build(body.p, "WhileStatement", ln, ln), "WhileStatement", ln)

(* the loop of lines 349-356: the dotted name of the target *)
parseIncludeTarget(targetName, p) ==
    IF ValueIs(p, <<".">>)
    THEN LET q == Consume(p) IN
         IF ~TypeIs(q, "Identifier") THEN [p |-> q, ok |-> FALSE, name |-> targetName]
         ELSE Parse("target", targetName \o <<".">> \o q.currentToken.value, Consume(q))
    ELSE [p |-> p, ok |-> TRUE, name |-> targetName]

(* lines 337-383; the node of the target keeps its dotted name *)
parseIncludeStatement(p) ==
    LET ln == p.currentToken.line
        q == Consume(p)
        target == IF TypeIs(q, "Identifier")
                  THEN parseIncludeTarget(q.currentToken.value, Consume(q))
                  ELSE [p |-> q, ok |-> TRUE, name |-> <<>>]
        r == IF TypeIs(q, "Identifier")
             THEN [target.p EXCEPT !.built = Append(@,
                      [kind |-> "VariableExpression", line |-> ln, first |-> ln, op |-> <<>>,
                       leftOp |-> <<>>, rightOp |-> <<>>, name |-> target.name])]
             ELSE target.p
    IN  IF ~target.ok THEN ParseError(target.p)
        ELSE IF ~ValueIs(r, <<"f", "r", "o", "m">>) THEN ParseError(r)
        ELSE LET fileName == Consume(r) IN
             IF ~TypeIs(fileName, "StringLiteral") THEN ParseError(fileName)
             ELSE LET semicolon == Consume(fileName) IN
                  IF ~ValueIs(semicolon, <<";">>) THEN ParseError(semicolon)
                  ELSE Parsed(Build(Consume(semicolon), "IncludeStatement", ln, ln),
                              "IncludeStatement", ln)

(* lines 65-144; a nullptr is the class "null" *)
parseStatement(p) ==
    CASE TypeIs(p, "EndOfFile") -> Parsed(p, "null", 0)
      [] TypeIs(p, "Identifier") -> parseAssignment(p)
      [] (TypeIs(p, "Keyword") /\ ValueIs(p, <<"w", "r", "i", "t", "e">>)) -> parseWriteStatement(p)
      [] (TypeIs(p, "Keyword") /\ ValueIs(p, <<"r", "e", "a", "d">>)) -> parseReadStatement(p)
      [] (TypeIs(p, "Keyword") /\ ValueIs(p, <<"w", "h", "i", "l", "e">>)) -> parseWhileStatement(p)
      [] (TypeIs(p, "Keyword") /\ ValueIs(p, <<"i", "n", "c", "l", "u", "d", "e">>)) ->
             parseIncludeStatement(p)
      [] OTHER -> ParseError(p)

(* the loop of lines 665-672; it ends before the '}' *)
parseBlockStatements(p) ==
    IF ~ValueIs(p, <<"}">>)
    THEN LET stmt == Parse("statement", 0, p) IN
         IF ~stmt.ok THEN stmt
         ELSE IF stmt.kind = "null" THEN ParseError(stmt.p)
         ELSE Parse("statements", 0, stmt.p)
    ELSE Parsed(p, "none", 0)

(* lines 653-676 *)
parseBlockStatement(p) ==
    IF ~ValueIs(p, <<"{">>)
    THEN LET singleStatement == Parse("statement", 0, p) IN
         IF singleStatement.ok /\ singleStatement.kind = "null"
         THEN ParseError(singleStatement.p)
         ELSE singleStatement
    ELSE LET statements == parseBlockStatements(Consume(p)) IN
         IF ~statements.ok THEN statements
         ELSE LET q == Consume(statements.p) IN
              Parsed(Build(q, "BlockStatement", q.currentToken.line, p.currentToken.line),
                     "BlockStatement", p.currentToken.line)

(* the parse functions that call one another *)
Parse(what, arg, p) ==
    CASE what = "expression" -> parseExpression(arg, p)
      [] what = "operators" -> parseBinaryOperators(arg, p)
      [] what = "arguments" -> parseArguments(p)
      [] what = "statement" -> parseStatement(p)
      [] what = "statements" -> parseBlockStatements(p)
      [] what = "block" -> parseBlockStatement(p)
      [] what = "advance" -> advance(p)
      [] what = "target" -> parseIncludeTarget(arg, p)

(***************************************************************************)
(* Sources of the parser: the words of a program, a space or a newline     *)
(* between two of them.                                                    *)
(***************************************************************************)
MaxBreaks == 2

(* the programs the parser is run on; "_" stands for the gap between two
   words, which the source fills with a space or a newline *)
ParsePool == <<
    \* i = 1 + n ;
    <<"i", "_", "=", "_", "1", "_", "+", "_", "n", "_", ";">>,
    \* i = 1 * ( n - 1 ) ;
    <<"i", "_", "=", "_", "1", "_", "*", "_", "(", "_", "n", "_", "-", "_", "1", "_", ")", "_", ";">>,
    \* i = n ( 1 , i ) ;
    <<"i", "_", "=", "_", "n", "_", "(", "_", "1", "_", ",", "_", "i", "_", ")", "_", ";">>,
    \* write ( i + 1 ) ;
    <<"w", "r", "i", "t", "e", "_", "(", "_", "i", "_", "+", "_", "1", "_", ")", "_", ";">>,
    \* write ( n ( ) ) ; i = 1 ;
    <<"w", "r", "i", "t", "e", "_", "(", "_", "n", "_", "(", "_", ")", "_", ")", "_", ";", "_", "i", "_", "=", "_", "1", "_", ";">>,
    \* read ( "a" ) i ;
    <<"r", "e", "a", "d", "_", "(", "_", "\"", "a", "\"", "_", ")", "_", "i", "_", ";">>,
    \* i = read ( ) ;
    <<"i", "_", "=", "_", "r", "e", "a", "d", "_", "(", "_", ")", "_", ";">>,
    \* while ( i ) { i = 1 ; }
    <<"w", "h", "i", "l", "e", "_", "(", "_", "i", "_", ")", "_", "{", "_", "i", "_", "=", "_", "1", "_", ";", "_", "}">>,
    \* while ( i < 1 ) write ( i ) ;
    <<"w", "h", "i", "l", "e", "_", "(", "_", "i", "_", "<", "_", "1", "_", ")", "_", "w", "r", "i", "t", "e", "_", "(", "_", "i", "_", ")", "_", ";">>,
    \* write ( i ++ ) ;
    <<"w", "r", "i", "t", "e", "_", "(", "_", "i", "_", "+", "+", "_", ")", "_", ";">>,
    \* i ;
    <<"i", "_", ";">>,
    \* i = # ;
    <<"i", "_", "=", "_", "#", "_", ";">>,
    \* i = 1
    <<"i", "_", "=", "_", "1">>,
    \* i = n + 1 % i ;
    <<"i", "_", "=", "_", "n", "_", "+", "_", "1", "_", "%", "_", "i", "_", ";">>,
    \* i = n - 1 - i ;
    <<"i", "_", "=", "_", "n", "_", "-", "_", "1", "_", "-", "_", "i", "_", ";">>,
    \* i = n + 1 * i ;
    <<"i", "_", "=", "_", "n", "_", "+", "_", "1", "_", "*", "_", "i", "_", ";">>,
    \* n ( 1 ) ;
    <<"n", "_", "(", "_", "1", "_", ")", "_", ";">>,
    \* include "a" ;
    <<"i", "n", "c", "l", "u", "d", "e", "_", "\"", "a", "\"", "_", ";">>,
    \* include i . n from "a" ;
    <<"i", "n", "c", "l", "u", "d", "e", "_", "i", "_", ".", "_", "n", "_", "f", "r", "o", "m", "_", "\"", "a", "\"", "_", ";">>,
    \* include i . n "a" ;
    <<"i", "n", "c", "l", "u", "d", "e", "_", "i", "_", ".", "_", "n", "_", "\"", "a", "\"", "_", ";">>,
    \* i #
    <<"i", "_", "#">> >>

(* the text of a program, the gaps whose number is in `breaks` filled with
   a newline and the others with a space *)
RECURSIVE Spell(_, _, _)
Spell(text, breaks, gap) ==
    IF text = <<>> THEN <<>>
    ELSE IF Head(text) = "_"
    THEN <<IF gap \in breaks THEN "\n" ELSE " ">> \o Spell(Tail(text), breaks, gap + 1)
    ELSE <<Head(text)>> \o Spell(Tail(text), breaks, gap)

(* Parser::Parser (line 5): the first token is read *)
ParseInit ==
    /\ source \in { Spell(ParsePool[k], breaks, 1) :
                      k \in 1..Len(ParsePool),
                      breaks \in {b \in SUBSET (1..9) : Cardinality(b) <= MaxBreaks} }
    /\ LET r == getNextToken(source, 0, 1) IN
       /\ position = r.position
       /\ line = r.line
       /\ currentToken = r.token
    /\ tokens = <<>>
    /\ lexed = "none"
    /\ built = <<>>
    /\ parsed = "none"
    /\ peeked = NoToken
    /\ original = NullNode
    /\ cloned = NotCloned
    /\ pending = <<>>
    /\ family = 1
    /\ variables = EmptyMap
    /\ functions = EmptyMap
    /\ out = <<>>
    /\ err = <<>>
    /\ status = "parsing"
    /\ nsteps = 0
    /\ last = NullStmt
    /\ trace = <<>>
    /\ constDecl = {}

(* how a call of parse() ends *)
Outcome(r) ==
    IF r.p.thrown \/ ~r.ok THEN "error"
    ELSE IF r.kind = "null" THEN "end"
    ELSE "node"

(* one call of Parser::parse() (lines 29-31) in the loop `while (auto ast =
   parser.parse())`; the nodes of a call that throws are destroyed *)
ParseCall(outcome) ==
    /\ parsed \in {"none", "node", "peeked"}
    /\ LET r == Parse("statement", 0,
                      [position |-> position, line |-> line, currentToken |-> currentToken,
                       built |-> built, thrown |-> FALSE]) IN
       /\ Outcome(r) = outcome
       /\ parsed' = outcome
       /\ position' = r.p.position
       /\ line' = r.p.line
       /\ currentToken' = r.p.currentToken
       /\ built' = IF outcome = "error" THEN built ELSE r.p.built
    /\ peeked' = NoToken
    /\ UNCHANGED <<source, tokens, lexed, evalVars, cloneVars, pending>>

ParseNode == ParseCall("node")

ParseEnd == ParseCall("end")

ParseThrow == ParseCall("error")

(* one call of Parser::peekNextToken() (lines 11-18): the cursor is put back
   after getNextToken() has returned, not when it throws *)
PeekNextToken ==
    /\ parsed \in {"none", "node", "peeked"}
    /\ LET nextToken == getNextToken(source, position, line) IN
       IF nextToken.result = "error"
       THEN /\ position' = nextToken.position
            /\ line' = nextToken.line
            /\ parsed' = "peekThrew"
            /\ peeked' = NoToken
       ELSE /\ position' = position
            /\ line' = line
            /\ parsed' = "peeked"
            /\ peeked' = nextToken.token
    /\ UNCHANGED <<source, tokens, lexed, currentToken, built, evalVars, cloneVars, pending>>

ParseNext ==
    \/ ParseNode
    \/ ParseEnd
    \/ ParseThrow
    \/ PeekNextToken

ParseSpec == ParseInit /\ [][ParseNext]_vars

(***************************************************************************)
(* Deep clone (src/FoxL/cloner.cpp, lines 5-105) of the trees the parser   *)
(* of part_006 builds.  A call gives the new tree or throws.               *)
(***************************************************************************)
MaxLine == 2

(* throw std::runtime_error("Unsupported ... type for cloning.") *)
Unsupported == [done |-> TRUE, ok |-> FALSE, node |-> NullNode]

(* std::make_unique of the class of `node` from its strings, its line and the
   clones of its children; an exception in one of these leaves the call *)
Rebuilt(node, copies) ==
    IF \E c \in 1..Len(copies) : ~copies[c].ok THEN Unsupported
    ELSE [done |-> TRUE, ok |-> TRUE,
          node |-> Node(node.kind, node.op, node.name, node.parameters, node.line,
                        [c \in 1..Len(copies) |-> copies[c].node])]

(* `x ? cloneExpression(x) : nullptr` *)
NullCopy == [done |-> TRUE, ok |-> TRUE, node |-> NullNode]

(* lines 5-43 *)
RECURSIVE clonerExpression(_)
clonerExpression(expr) ==
    CASE expr.kind \in {"Number", "String", "Bool", "Variable"} -> Rebuilt(expr, <<>>)
      [] expr.kind = "Binary" ->
            Rebuilt(expr, <<clonerExpression(expr.children[1]),
                            clonerExpression(expr.children[2])>>)
      [] expr.kind \in {"Unary", "FunctionCall", "Array"} ->
            Rebuilt(expr, [c \in 1..Len(expr.children) |-> clonerExpression(expr.children[c])])
      [] OTHER -> Unsupported

(* lines 46-105 *)
RECURSIVE clonerStatement(_)
clonerStatement(stmt) ==
    LET child == stmt.children IN
    CASE stmt.kind = "Write" -> Rebuilt(stmt, <<clonerExpression(child[1])>>)
      [] stmt.kind = "Block" ->
            Rebuilt(stmt, [c \in 1..Len(child) |-> clonerStatement(child[c])])
      [] stmt.kind = "If" ->
            Rebuilt(stmt, <<clonerExpression(child[1]), clonerStatement(child[2]),
                            IF child[3].kind = "null" THEN NullCopy
                            ELSE clonerStatement(child[3])>>)
      [] stmt.kind = "While" ->
            Rebuilt(stmt, <<clonerExpression(child[1]), clonerStatement(child[2])>>)
      [] stmt.kind = "For" ->
            Rebuilt(stmt, <<clonerStatement(child[1]), clonerExpression(child[2]),
                            clonerStatement(child[3]), clonerStatement(child[4])>>)
      [] stmt.kind = "ForEach" ->
            Rebuilt(stmt, <<clonerExpression(child[1]), clonerStatement(child[2])>>)
      [] stmt.kind \in {"Return", "VarDecl"} ->
            Rebuilt(stmt, <<IF child[1].kind = "null" THEN NullCopy
                            ELSE clonerExpression(child[1])>>)
      [] stmt.kind = "FuncDecl" -> Rebuilt(stmt, <<clonerStatement(child[1])>>)
      [] OTHER -> Unsupported

(* expressions parsePrimary and parseExpression of part_006 build, on line ln *)
ExpressionPool(ln) ==
    LET i == Node("Variable", "", "i", <<>>, ln, <<>>)
        one == Node("Number", "", "1", <<>>, ln, <<>>)
        read == Node("Read", "", "", <<>>, ln, <<NullNode>>)
    IN  << i, one,
           Node("String", "", "a", <<>>, ln, <<>>),
           Node("Binary", "+", "", <<>>, ln, <<i, one>>),
           Node("Binary", "*", "", <<>>, ln, <<Node("Binary", "-", "", <<>>, ln, <<i, one>>), i>>),
           Node("FunctionCall", "", "n", <<>>, ln, <<one, i>>),
           Node("Unary", "++", "", <<>>, ln, <<i>>),
           read,
           Node("Binary", "+", "", <<>>, ln, <<one, read>>) >>

(* statements the parser of part_006 builds around the expression e *)
StatementPool(e, ln) ==
    LET i == Node("Variable", "", "i", <<>>, ln, <<>>)
        write == Node("Write", "", "", <<>>, ln, <<i>>)
        assign == Node("ExpressionStatement", "", "", <<>>, ln,
                       <<Node("Binary", "=", "", <<>>, ln, <<i, e>>)>>)
    IN  << Node("Write", "", "", <<>>, ln, <<e>>),
           assign,
           Node("Return", "", "", <<>>, ln, <<e>>),
           Node("VarDecl", "let", "i", <<>>, ln, <<e>>),
           Node("While", "", "", <<>>, ln, <<i, Node("Write", "", "", <<>>, ln, <<e>>)>>),
           Node("While", "", "", <<>>, ln, <<i, Node("Block", "", "", <<>>, ln, <<write, assign>>)>>),
           Node("If", "", "", <<>>, ln,
                <<i, Node("Block", "", "", <<>>, ln, <<Node("Return", "", "", <<>>, ln, <<e>>)>>),
                  NullNode>>),
           Node("FuncDecl", "", "n", <<"i">>, ln,
                <<Node("Block", "", "", <<>>, ln, <<Node("Return", "", "", <<>>, ln, <<e>>)>>)>>),
           Node("Read", "", "", <<>>, ln, <<i, e>>),
           Node("Include", "", "a", <<>>, ln, <<NullNode>>),
           Node("Return", "", "", <<>>, ln, <<NullNode>>) >>

CloneInit ==
    /\ \E ln \in 1..MaxLine : \E x \in 1..Len(ExpressionPool(ln)) :
       \E t \in 1..Len(StatementPool(NullNode, ln)) :
          original = StatementPool(ExpressionPool(ln)[x], ln)[t]
    /\ cloned = NotCloned
    /\ pending = <<>>
    /\ source = <<>>
    /\ position = 0
    /\ line = 1
    /\ tokens = <<>>
    /\ lexed = "none"
    /\ currentToken = NoToken
    /\ built = <<>>
    /\ parsed = "none"
    /\ peeked = NoToken
    /\ family = 1
    /\ variables = EmptyMap
    /\ functions = EmptyMap
    /\ out = <<>>
    /\ err = <<>>
    /\ status = "cloning"
    /\ nsteps = 0
    /\ last = NullStmt
    /\ trace = <<>>
    /\ constDecl = {}

(* one call of cloneStatement(original) *)
Clone ==
    /\ ~cloned.done
    /\ original.kind # "null"
    /\ cloned' = clonerStatement(original)
    /\ UNCHANGED <<original, evalVars, lexVars, parseVars, pending>>

CloneSpec == CloneInit /\ [][Clone]_vars

(***************************************************************************)
(* Parser of src/unnamed/part_007 (lines 311-752) on the tokens of a       *)
(* source that holds the keywords func and while, an identifier, a number, *)
(* the operator + and the symbols ( ) { } ; only.  The lexer gives         *)
(* EndOfFile on every call once the source is used up.  A parser state p   *)
(* has the fields currentToken and rest, the tokens still to come; a call  *)
(* ends ("end") with a node, with nullptr ("null"), with a thrown error,   *)
(* or it never ends ("unbounded").                                         *)
(***************************************************************************)
MaxTokens == 3

Tk(type, value) == [type |-> type, value |-> value]

EndOfFileTk == Tk("EndOfFile", "")

Ended(p, end) == [p |-> p, end |-> end]

(* lines 321-323 *)
advanceTk(p) ==
    IF p.rest = <<>> THEN [p EXCEPT !.currentToken = EndOfFileTk]
    ELSE [currentToken |-> Head(p.rest), rest |-> Tail(p.rest)]

RECURSIVE Descend(_, _)

(* lines 476-488: the arguments of a call, up to and with its ')' *)
parseCallArguments(p) ==
    IF p.currentToken = Tk("Symbol", ")") THEN Ended(advanceTk(p), "node")
    ELSE LET e == Descend("expression", p) IN
         IF e.end # "node" THEN e
         ELSE IF e.p.currentToken = Tk("Symbol", ",") THEN Descend("arguments", advanceTk(e.p))
         ELSE IF e.p.currentToken = Tk("Symbol", ")") THEN Ended(advanceTk(e.p), "node")
         ELSE Ended(e.p, "error")

(* lines 457-549 *)
parsePrimaryTk(p) ==
    IF p.currentToken.type = "Number" THEN Ended(advanceTk(p), "node")
    ELSE IF p.currentToken.type = "Identifier" THEN
        LET q == advanceTk(p) IN
        IF q.currentToken = Tk("Symbol", "(") THEN Descend("arguments", advanceTk(q))
        ELSE Ended(q, "node")
    ELSE Ended(p, "error")

(* lines 443-452: the loop over the operators that follow a primary *)
parseOperatorsTk(p) ==
    IF p.currentToken.type # "Operator" THEN Ended(p, "node")
    ELSE IF p.currentToken.value \in {"++", "--"} THEN Ended(advanceTk(p), "node")
    ELSE LET right == parsePrimaryTk(advanceTk(p)) IN
         IF right.end # "node" THEN right ELSE Descend("operators", right.p)

(* lines 440-455 *)
parseExpressionTk(p) ==
    LET left == parsePrimaryTk(p) IN
    IF left.end # "node" THEN left ELSE Descend("operators", left.p)

(* lines 731-742 *)
parseExpressionStatementTk(p) ==
    LET expr == Descend("expression", p) IN
    IF expr.end # "node" THEN expr
    ELSE IF expr.p.currentToken.type = "EndOfFile" THEN expr
    ELSE IF expr.p.currentToken.value = ";" THEN Ended(advanceTk(expr.p), "node")
    ELSE Ended(expr.p, "error")

(* lines 587-591 and 723-727: while (currentToken.value != "}") a statement
   is parsed and pushed, then '}' is consumed.  A parseStatement() that
   returns with the parser where it was (nullptr at EndOfFile) brings the
   loop back to the state this iteration started in: it runs for ever. *)
parseStatements(p) ==
    IF p.currentToken.value = "}" THEN Ended(advanceTk(p), "node")
    ELSE LET stmt == Descend("statement", p) IN
         IF stmt.end \in {"error", "unbounded"} THEN stmt
         ELSE IF stmt.p = p THEN Ended(p, "unbounded")
         ELSE Descend("statements", stmt.p)

(* lines 714-729 *)
parseBlock(p) ==
    IF p.currentToken.value # "{" THEN Descend("statement", p)
    ELSE Descend("statements", advanceTk(p))

(* lines 673-692 *)
parseWhileStatementTk(p) ==
    LET open == advanceTk(p) IN
    IF open.currentToken.value # "(" THEN Ended(open, "error") ELSE
    LET condition == Descend("expression", advanceTk(open)) IN
    IF condition.end # "node" THEN condition
    ELSE IF condition.p.currentToken.value # ")" THEN Ended(condition.p, "error") ELSE
    LET body == parseBlock(advanceTk(condition.p)) IN
    IF body.end \in {"error", "unbounded"} THEN body ELSE Ended(body.p, "node")

(* lines 566-578: the parameter names, up to the ')' *)
parseParameters(p) ==
    IF p.currentToken.value = ")" THEN Ended(p, "node")
    ELSE IF p.currentToken.type # "Identifier" THEN Ended(p, "error")
    ELSE LET q == advanceTk(p) IN
         IF q.currentToken.value = "," THEN Descend("parameters", advanceTk(q))
         ELSE IF q.currentToken.value # ")" THEN Ended(q, "error")
         ELSE Descend("parameters", q)

(* lines 551-594 *)
parseFunctionDeclaration(p) ==
    LET name == advanceTk(p) IN
    IF name.currentToken.type # "Identifier" THEN Ended(name, "error") ELSE
    LET open == advanceTk(name) IN
    IF open.currentToken.value # "(" THEN Ended(open, "error") ELSE
    LET parameters == Descend("parameters", advanceTk(open)) IN
    IF parameters.end # "node" THEN parameters ELSE
    LET brace == advanceTk(parameters.p) IN
    IF brace.currentToken.value # "{" THEN Ended(brace, "error")
    ELSE Descend("statements", advanceTk(brace))

(* lines 325-355 *)
parseStatementTk(p) ==
    IF p.currentToken.type = "EndOfFile" THEN Ended(p, "null")
    ELSE IF p.currentToken.type = "Keyword" THEN
        CASE p.currentToken.value = "func" -> parseFunctionDeclaration(p)
          [] p.currentToken.value = "while" -> parseWhileStatementTk(p)
          [] OTHER -> Ended(p, "error")
    ELSE IF p.currentToken.type = "Identifier" THEN parseExpressionStatementTk(p)
    ELSE Ended(p, "error")

Descend(what, p) ==
    CASE what = "statement" -> parseStatementTk(p)
      [] what = "statements" -> parseStatements(p)
      [] what = "expression" -> parseExpressionTk(p)
      [] what = "operators" -> parseOperatorsTk(p)
      [] what = "arguments" -> parseCallArguments(p)
      [] what = "parameters" -> parseParameters(p)

TokenAlphabet ==
    { Tk("Keyword", "func"), Tk("Keyword", "while"), Tk("Identifier", "i"), Tk("Number", "1"),
      Tk("Operator", "+"), Tk("Symbol", "("), Tk("Symbol", ")"), Tk("Symbol", "{"),
      Tk("Symbol", "}"), Tk("Symbol", ";") }

(* while (i) { i; func i(i) { 1 + i; } i(1); } *)
Nested ==
    << Tk("Keyword", "while"), Tk("Symbol", "("), Tk("Identifier", "i"), Tk("Symbol", ")"),
       Tk("Symbol", "{"), Tk("Identifier", "i"), Tk("Symbol", ";"),
       Tk("Keyword", "func"), Tk("Identifier", "i"), Tk("Symbol", "("), Tk("Identifier", "i"),
       Tk("Symbol", ")"), Tk("Symbol", "{"), Tk("Identifier", "i"), Tk("Operator", "+"),
       Tk("Number", "1"), Tk("Symbol", ";"), Tk("Symbol", "}"),
       Tk("Identifier", "i"), Tk("Symbol", "("), Tk("Number", "1"), Tk("Symbol", ")"),
       Tk("Symbol", ";"), Tk("Symbol", "}") >>

(* the token sequences of the sources: every sequence of at most MaxTokens
   tokens, and the file above cut off after any of its tokens *)
TokenSources ==
    UNION {[1..n -> TokenAlphabet] : n \in 0..MaxTokens}
      \cup {SubSeq(Nested, 1, n) : n \in 1..Len(Nested)}

(* the constructor (line 311) reads the first token *)
DescentInit ==
    /\ \E toks \in TokenSources :
          LET p == advanceTk([currentToken |-> EndOfFileTk, rest |-> toks]) IN
          /\ currentToken = p.currentToken
          /\ pending = p.rest
    /\ parsed = "none"
    /\ built = <<>>
    /\ peeked = NoToken
    /\ source = <<>>
    /\ position = 0
    /\ line = 1
    /\ tokens = <<>>
    /\ lexed = "none"
    /\ original = NullNode
    /\ cloned = NotCloned
    /\ family = 1
    /\ variables = EmptyMap
    /\ functions = EmptyMap
    /\ out = <<>>
    /\ err = <<>>
    /\ status = "parsing"
    /\ nsteps = 0
    /\ last = NullStmt
    /\ trace = <<>>
    /\ constDecl = {}

(* one call of Parser::parse() (lines 313-315) from main's loop, which goes
   on while parse() returns a node *)
ParseTokens ==
    /\ parsed \in {"none", "node"}
    /\ LET r == Descend("statement", [currentToken |-> currentToken, rest |-> pending]) IN
       /\ parsed' = r.end
       /\ currentToken' = r.p.currentToken
       /\ pending' = r.p.rest
    /\ UNCHANGED <<built, peeked, evalVars, lexVars, cloneVars>>

DescentSpec == DescentInit /\ [][ParseTokens]_vars

(***************************************************************************)
(* Properties.  Vocabulary shared by the formulas below.                   *)
(***************************************************************************)
Events(kind) == {i \in 1..Len(trace) : trace[i].ev = kind}

Stepped == nsteps' = nsteps + 1

(* write(a[i]) and write(a[i] = v) at top level *)
IsIndexRead(node) == node.k = "Write" /\ node.messageExpr.k = "Index"

IsIndexWrite(node) ==
    /\ node.k = "Write"
    /\ node.messageExpr.k = "Binary"
    /\ node.messageExpr.op = "="
    /\ node.messageExpr.left.k = "Index"

HoldsArray(n) == n \in DOMAIN variables /\ variables[n].value.t \in {"ivec", "svec"}

Elements(v) == IF v.t = "ivec" THEN [j \in 1..Len(v.ia) |-> IntV(v.ia[j])]
               ELSE [j \in 1..Len(v.sa) |-> StrV(v.sa[j])]

(* the value of a side-effect-free expression in the current state *)
ValueOf(e) == Evaluate(e, Entry).v

OutOfBoundsReport == "Error executing statement: Index out of bounds"

(* C1: a binding created by a `const` declaration keeps its value in every
   later state: no assignment, indexed assignment or new declaration of the
   name changes it. *)
C1_ConstNeverChanges ==
    [][\A n \in constDecl : variables'[n].value = variables[n].value]_vars

(* C2: every call that completes, by a Return or by reaching the end of its
   body, at any depth of nesting or recursion, leaves the caller's variables
   equal to what they were when the body started. *)
C2_CallRestoresCaller ==
    \A i \in Events("callDone") : trace[i].after = trace[i].before

(* a call nested in another call has completed after its body had changed
   the variables, and a call that reached the end of its body has completed *)
C2_Witness ==
    /\ \E i \in Events("callDone") :
          /\ trace[i].depth = 2
          /\ trace[i].inner # trace[i].before
          /\ trace[i].how = "return"
    /\ \E i \in Events("callDone") : trace[i].depth = 1
    /\ status = "running"

(* C3: when the left operand of && is false, or the left operand of || is
   true, the right operand is not evaluated: a call in it does not happen. *)
C3_ShortCircuit ==
    (/\ last.k = "Write"
     /\ last.messageExpr.k = "Binary"
     /\ \/ last.messageExpr.op = "&&" /\ ValueOf(last.messageExpr.left) = BoolV(FALSE)
        \/ last.messageExpr.op = "||" /\ ValueOf(last.messageExpr.left) = BoolV(TRUE))
    => Events("callEnter") = {}

(* C4: once a statement nested inside a top-level statement has failed,
   nothing more of that top-level statement is executed. *)
C4_ErrorEndsTopLevelStatement ==
    \A i \in Events("fail") :
        trace[i].nest > 0 => \A j \in Events("exec") : j < i

(* C5: a Return executed inside a function body is followed at once by the
   completion of that activation, with the returned value as the value of the
   call; and an activation completes by Return only through a Return of its
   own, so the Return unwinds no other activation. *)
C5_ReturnUnwindsOneActivation ==
    /\ \A i \in Events("throwReturn") :
          trace[i].depth >= 1 =>
              /\ i < Len(trace)
              /\ trace[i + 1].ev = "callDone"
              /\ trace[i + 1].depth = trace[i].depth
              /\ trace[i + 1].how = "return"
              /\ trace[i + 1].v = trace[i].v
    /\ \A i \in Events("callDone") :
          trace[i].how = "return" =>
              /\ i > 1
              /\ trace[i - 1].ev = "throwReturn"
              /\ trace[i - 1].depth = trace[i].depth

(* a Return nested in an if block of a call made by another function body,
   after which that body goes on with its next statement *)
C5_Witness ==
    \E i \in Events("throwReturn") :
        /\ trace[i].depth = 2
        /\ trace[i - 1].ev = "exec" /\ trace[i - 1].nest >= 3
        /\ \E j \in Events("exec") : j > i /\ trace[j].depth = 1

(* C6: once a statement of a function body has failed, no further statement
   of that activation is executed and the call does not complete. *)
C6_ErrorEndsCall ==
    \A i \in Events("fail") :
        trace[i].depth >= 1 =>
            \A j \in Events("exec") \cup Events("callDone") :
                j > i => trace[j].depth < trace[i].depth

(* C7: a run in which the evaluation of a statement failed does not end with
   exit code 0. *)
C7_ExitCodeReportsFailure ==
    status = "exit0" => err = <<>>

(* C8: reading a[i] from an array a yields the element at position i exactly
   when 0 <= i < len(a) and otherwise fails with an out-of-bounds error and
   yields nothing; a[i] = v stores v at position i under the same bound and
   otherwise fails and stores nothing. *)
C8_IndexBounds ==
    [][Stepped =>
        /\ (IsIndexRead(last') /\ HoldsArray(last'.messageExpr.array.name)) =>
              LET a == Elements(variables[last'.messageExpr.array.name].value)
                  i == ValueOf(last'.messageExpr.index).i
              IN  IF 0 <= i /\ i < Len(a)
                  THEN out' = Append(out, printValue(a[i + 1])) /\ err' = err
                  ELSE out' = out /\ err' = Append(err, OutOfBoundsReport)
        /\ (/\ IsIndexWrite(last')
            /\ HoldsArray(last'.messageExpr.left.array.name)
            /\ ValueOf(last'.messageExpr.right).t =
                 (IF variables[last'.messageExpr.left.array.name].value.t = "ivec"
                  THEN "int" ELSE "str")) =>
              LET n == last'.messageExpr.left.array.name
                  a == Elements(variables[n].value)
                  i == ValueOf(last'.messageExpr.left.index).i
                  v == ValueOf(last'.messageExpr.right)
              IN  IF 0 <= i /\ i < Len(a)
                  THEN /\ Elements(variables'[n].value) = [a EXCEPT ![i + 1] = v]
                       /\ out' = Append(out, printValue(v))
                       /\ err' = err
                  ELSE /\ variables' = variables
                       /\ out' = out
                       /\ err' = Append(err, OutOfBoundsReport)
    ]_vars

(* a store at the last position has changed the array, the position just
   past the end has then been refused, and an element has been read *)
C8_Witness ==
    /\ IsIndexWrite(last)
    /\ HoldsArray("a")
    /\ ValueOf(last.messageExpr.left.index).i = Len(variables["a"].value.ia)
    /\ variables["a"].value.ia = <<1, 8>>
    /\ Len(err) = 1 /\ err[1] = OutOfBoundsReport
    /\ Len(out) = 2 /\ out[2] = "8"

(* C9: a let or const declaration of a name that is already bound fails, and
   the binding keeps its value and its const flag. *)
C9_RedeclarationFails ==
    [][(Stepped /\ last'.k = "VarDecl" /\ last'.name \in DOMAIN variables) =>
          /\ variables' = variables
          /\ Len(err') = Len(err) + 1
    ]_vars

(* C10: an indexed assignment through one binding changes that binding only:
   every other binding, also one that holds an equal array, keeps its value. *)
C10_StoreChangesOneBinding ==
    \A i \in Events("store") :
        /\ DOMAIN trace[i].after = DOMAIN trace[i].before
        /\ \A m \in DOMAIN trace[i].before \ {trace[i].name} :
              trace[i].after[m] = trace[i].before[m]

(* a store through one of two bindings that held equal arrays has left them
   different *)
C10_Witness ==
    \E i \in Events("store") :
        \E m \in DOMAIN trace[i].before \ {trace[i].name} :
            /\ trace[i].before[m].value = trace[i].before[trace[i].name].value
            /\ trace[i].after[m].value # trace[i].after[trace[i].name].value

(* the loop  while (i < n) { write(i); i = i + 1; }  as the parser builds it *)
IsCountLoop(node) ==
    /\ node.k = "While"
    /\ node.body.k = "Block"
    /\ Len(node.body.statements) = 2
    /\ node.body.statements[1].k = "Write"
    /\ node.body.statements[2].k = "null"

Count(n) == [j \in 1..n |-> ToString(j - 1)]

(* C11: from i = 0 the loop  while (i < n) { write(i); i = i + 1; }  ends,
   having written 0, 1, ..., n-1 in this order and left i = n. *)
C11_CountLoopTerminates ==
    [][(/\ Stepped
        /\ IsCountLoop(last')
        /\ "i" \in DOMAIN variables
        /\ variables["i"].value = IntV(0)) =>
          LET n == last'.condition.right.value.whole
          IN  /\ status' = "running"
              /\ out' = out \o Count(n)
              /\ variables'["i"].value = IntV(n)
    ]_vars

RECURSIVE Factorial(_)
Factorial(n) == IF n <= 1 THEN 1 ELSE n * Factorial(n - 1)

IsFactCall(node) ==
    /\ node.k = "Write"
    /\ node.messageExpr.k = "FunctionCall"
    /\ node.messageExpr.functionName = "fact"

(* C12: with fact declared, write(fact(n)) ends and writes n! (1 for
   n <= 1), leaving the caller's variables as they were; every inner
   activation ran with its own k, one less than the k of the activation that
   called it, and that activation finds its k unchanged after the call. *)
C12_FactorialByRecursion ==
    [][(Stepped /\ IsFactCall(last') /\ "fact" \in DOMAIN functions) =>
          LET n == last'.messageExpr.arguments[1].value.whole
          IN  /\ status' = "running"
              /\ out' = Append(out, ToString(Factorial(n)))
              /\ err' = err
              /\ variables' = variables
              /\ \A i \in 1..Len(trace') :
                    (trace'[i].ev = "callDone" /\ trace'[i].depth >= 2) =>
                        /\ trace'[i].inner["k"].value.i = trace'[i].before["k"].value.i - 1
                        /\ trace'[i].after["k"] = trace'[i].before["k"]
    ]_vars

(* fact(3) has been written as 6 after three nested activations *)
C12_Witness ==
    /\ IsFactCall(last)
    /\ last.messageExpr.arguments[1].value.whole = 3
    /\ out # <<>> /\ out[Len(out)] = "6"
    /\ \E i \in Events("callDone") : trace[i].depth = 3 /\ trace[i].v = IntV(1)

IsCallWrite(node) == node.k = "Write" /\ node.messageExpr.k = "FunctionCall"

(* the step reports msg and changes nothing else: no body was entered *)
FailsWithoutEffect(msg) ==
    /\ variables' = variables
    /\ functions' = functions
    /\ out' = out
    /\ err' = Append(err, "Error executing statement: " \o msg)
    /\ status' = "running"
    /\ \A i \in 1..Len(trace') : trace'[i].ev # "callEnter"

(* C13: a call with a number of arguments other than the callee's number of
   parameters fails with an arity error, and a call of an unregistered name
   fails too; in both cases no body runs, no argument is evaluated, no
   parameter is bound and the caller's variables are unchanged. *)
C13_ArityMismatchHasNoEffect ==
    [][(Stepped /\ IsCallWrite(last')) =>
          LET f == last'.messageExpr.functionName
              given == Len(last'.messageExpr.arguments)
          IN  IF f \notin DOMAIN functions
              THEN FailsWithoutEffect("Undefined function: " \o f)
              ELSE Len(functions[f].parameters) # given =>
                      FailsWithoutEffect("Function " \o f
                                         \o " called with incorrect number of arguments")
    ]_vars

(* g(x = 5, 2) has been refused with x still 1, after h(x = 5) was refused *)
C13_Witness ==
    /\ IsCallWrite(last)
    /\ Len(last.messageExpr.arguments) = 2
    /\ "g" \in DOMAIN functions
    /\ "x" \in DOMAIN variables /\ variables["x"].value = IntV(1)
    /\ Len(err) = 2
    /\ err[1] = "Error executing statement: Undefined function: h"
    /\ err[2] = "Error executing statement: Function g called with incorrect number of arguments"

(* C14: evaluation is deterministic: every run of a node from the state the
   step started in writes what this step wrote and ends as this step ended. *)
C14_Deterministic ==
    [][(Stepped /\ ~IsExpression(last')) =>
          \A ub \in UseAfterFree :
              LET r == RunFrom(last', ub)
              IN  /\ out' = r.st.out
                  /\ err' = ErrAfter(r)
                  /\ variables' = r.st.variables
                  /\ functions' = r.st.functions
                  /\ status' = StatusAfter(r)
    ]_vars

(* C19: a top-level node whose execution ends in a `return` outside every
   call ends that node only: nothing is reported on the error stream and
   the run goes on with the next node. *)
C19_TopLevelReturnEndsNodeOnly ==
    [][ (Stepped /\ \A ub \in UseAfterFree : RunFrom(last', ub).sig = "return")
            => (err' = err /\ status' = "running") ]_vars

(* C20: a call whose body ends without a `return` yields a value that is
   no int, and the caller's bindings are restored. *)
C20_FallThroughYieldsNull ==
    \A j \in Events("callDone") :
        trace[j].how = "end" => (trace[j].v.t # "int" /\ trace[j].after = trace[j].before)

IsAssignmentWrite(node) ==
    /\ node.k = "Write"
    /\ node.messageExpr.k = "Binary"
    /\ node.messageExpr.op = "="
    /\ node.messageExpr.left.k \in {"Variable", "Index"}

(* the execute() of the top-level node caught an exception of its own *)
StatementFailed ==
    \E i \in 1..Len(trace') :
        trace'[i].ev = "fail" /\ trace'[i].nest = 0 /\ trace'[i].depth = 0

(* C27: an assignment whose right-hand side is a call and which succeeds
   enters the callee once, so the step writes the callee's one line and
   the written value, two lines in all. *)
C27_RightSideEvaluatedOnce ==
    [][(/\ Stepped
        /\ IsAssignmentWrite(last')
        /\ last'.messageExpr.right.k = "FunctionCall"
        /\ ~StatementFailed)
          => /\ Cardinality({i \in 1..Len(trace') : trace'[i].ev = "callEnter"}) = 1
             /\ Len(out') = Len(out) + 2
    ]_vars

(* the evaluation of e holds an assignment of its own; the statements of a
   callee act on the callee's copy of the variables (lines 413-427) *)
RECURSIVE Assigns(_)
Assigns(e) ==
    CASE e.k = "Binary" -> e.op = "=" \/ Assigns(e.left) \/ Assigns(e.right)
      [] e.k = "Index" -> Assigns(e.array) \/ Assigns(e.index)
      [] e.k = "Array" -> \E j \in 1..Len(e.elements) : Assigns(e.elements[j])
      [] e.k = "FunctionCall" -> \E j \in 1..Len(e.arguments) : Assigns(e.arguments[j])
      [] OTHER -> FALSE

(* C28: when an assignment `x = e` or `a[i] = e` whose e performs no
   assignment fails, the variable map after the statement is the map
   before it. *)
C28_FailedAssignmentChangesNothing ==
    [][(/\ Stepped
        /\ IsAssignmentWrite(last')
        /\ ~Assigns(last'.messageExpr.right)
        /\ StatementFailed)
          => variables' = variables
    ]_vars

(* c = g() has been refused after g ran and wrote its line; x, c and a hold
   what their declarations gave them *)
C28_Witness ==
    /\ IsAssignmentWrite(last)
    /\ last.messageExpr.left = Var("c")
    /\ last.messageExpr.right.k = "FunctionCall"
    /\ out = <<"side">>
    /\ err = <<"Error executing statement: Cannot assign to constant variable: c">>
    /\ DOMAIN variables = {"x", "c"}
    /\ variables["x"].value = IntV(1)
    /\ variables["c"].value = IntV(1)

(* the callable execute() registers for a FunctionDeclaration (line 102) *)
Registered(decl) == [parameters |-> decl.parameters, body |-> cloneStatements(decl.body)]

(* C29: a function declared by a statement of a body that ran stays
   registered after the call; a call runs the callable registered last
   under its name; a declaration replaces the callable of its name. *)
C29_CallableTableOutlivesCall ==
    [][Stepped =>
          /\ (/\ IsCallWrite(last')
              /\ last'.messageExpr.functionName \in DOMAIN functions
              /\ status' = "running")
                => LET body == functions[last'.messageExpr.functionName].body IN
                   /\ \A j \in 1..Len(body) :
                         (/\ body[j].k = "FuncDecl"
                          /\ \A h \in 1..(j - 1) : body[h].k = "Write")
                            => /\ body[j].name \in DOMAIN functions'
                               /\ functions'[body[j].name] = Registered(body[j])
                   /\ (Len(body) = 1 /\ body[1].k = "Return" /\ body[1].expression.k = "Number")
                         => out' = Append(out, ToString(body[1].expression.value.whole))
          /\ last'.k = "FuncDecl"
                => /\ last'.name \in DOMAIN functions'
                   /\ functions'[last'.name] = Registered(last')
    ]_vars

(* inner was declared to return 3, outer() declared it again, and the call
   of inner() after that wrote 7 *)
C29_Witness ==
    /\ nsteps = 4
    /\ IsCallWrite(last)
    /\ last.messageExpr.functionName = "inner"
    /\ out = <<"1", "7">>
    /\ functions["inner"].body[1].expression = Num(7)

(***************************************************************************)
(* Lexer properties, stated of LexSpec.                                    *)
(***************************************************************************)
(* the tokens getNextToken() returns on a source until EndOfFile or a throw *)
RECURSIVE Tokenize(_, _, _, _)
Tokenize(src, pos, ln, acc) ==
    LET r == getNextToken(src, pos, ln) IN
    CASE r.result = "token" -> Tokenize(src, r.position, r.line, Append(acc, r.token))
      [] r.result = "eof" -> [ok |-> TRUE, tokens |-> acc]
      [] OTHER -> [ok |-> FALSE, tokens |-> acc]

(* the texts of the tokens, a space between two of them *)
RECURSIVE Join(_)
Join(toks) ==
    IF toks = <<>> THEN <<>>
    ELSE IF Len(toks) = 1 THEN toks[1].value
    ELSE toks[1].value \o <<" ">> \o Join(Tail(toks))

NotEndOfFile(tok) == tok.type # "EndOfFile"

Produced == SelectSeq(tokens, NotEndOfFile)

(* C15: when a source was lexed to EndOfFile without a throw, lexing the
   texts of its tokens joined by spaces succeeds and gives as many tokens,
   of the same kinds in the same order. *)
C15_RoundTrip ==
    lexed = "eof" =>
        LET again == Tokenize(Join(Produced), 0, 1, <<>>) IN
        /\ again.ok
        /\ Len(again.tokens) = Len(Produced)
        /\ \A k \in 1..Len(Produced) : again.tokens[k].type = Produced[k].type

(* C16: a call of getNextToken() never moves the cursor back; it moves it
   forward unless it throws or the cursor is at the end of the source; with
   the cursor at the end it returns EndOfFile and leaves the cursor. *)
C16_CursorAdvances ==
    [][ /\ position' >= position
        /\ (position < Len(source) /\ lexed' # "error" => position' > position)
        /\ (position >= Len(source) => lexed' = "eof" /\ position' = position)
        /\ (lexed' = "eof" => position' = Len(source) /\ ~NotEndOfFile(tokens'[Len(tokens')]))
      ]_vars

C16_Witness ==
    /\ Len(tokens) >= 4
    /\ NotEndOfFile(tokens[1]) /\ NotEndOfFile(tokens[2])
    /\ tokens[1].type = "Symbol"
    /\ ~NotEndOfFile(tokens[Len(tokens) - 1]) /\ ~NotEndOfFile(tokens[Len(tokens)])
    /\ position = Len(source)

(* the 1-based number of the line the character at `pos` lies on *)
LineOf(src, pos) == 1 + Cardinality({p \in 1..pos : src[p] = "\n"})

(* C17: every token returned carries the number of the line its first
   character lies on. *)
C17_TokenLine ==
    \A k \in 1..Len(tokens) :
        NotEndOfFile(tokens[k]) => tokens[k].line = LineOf(source, tokens[k].start)

(* the length of the longest operator of the list that starts at `start`,
   1 when none does *)
Munch(src, start) ==
    IF start + 3 <= Len(src) /\ SubSeq(src, start + 1, start + 3) \in
           {<<"<", "<", "<">>, <<">", ">", ">">>}
    THEN 3
    ELSE IF start + 2 <= Len(src) /\ SubSeq(src, start + 1, start + 2) \in
           { <<"=", "=">>, <<"!", "=">>, <<"<", "=">>, <<">", "=">>, <<"&", "&">>, <<"|", "|">>,
             <<"+", "+">>, <<"-", "-">>, <<"+", "=">>, <<"-", "=">>, <<"*", "=">>, <<"/", "=">>,
             <<"%", "=">>, <<"&", "=">>, <<"|", "=">>, <<"^", "=">>, <<"<", "<">>, <<">", ">">>,
             <<"?", "?">>, <<"?", ":">>, <<"^", "/">>, <<"^", "^">> }
    THEN 2
    ELSE 1

(* C23: a token that starts at an operator lead byte is one Operator token
   holding the longest operator of the list that starts there, a single
   character when none does. *)
C23_MaximalMunch ==
    \A k \in 1..Len(tokens) :
        (NotEndOfFile(tokens[k]) /\
         At(source, tokens[k].start) \in {"+", "-", "*", "/", "%", "=", "&", "|", "<", ">",
                                          "!", "^", "~", "?", ":"}) =>
            /\ tokens[k].type = "Operator"
            /\ Len(tokens[k].value) = Munch(source, tokens[k].start)

(***************************************************************************)
(* Parser properties, stated of ParseSpec.                                 *)
(***************************************************************************)
(* C18: every node the parser has built has a positive `line`, the line of
   the first token of the text the node was built from. *)
C18_NodeLine ==
    \A k \in 1..Len(built) : built[k].line >= 1 /\ built[k].line = built[k].first

(* C21: a call of peekNextToken(), whether it returns or throws, leaves the
   lexer's cursor and line and the parser's current token as they were, and
   the token it returns is the one the next getNextToken() gives. *)
C21_PeekHasNoLastingEffect ==
    [][ parsed' \in {"peeked", "peekThrew"} =>
            /\ position' = position
            /\ line' = line
            /\ currentToken' = currentToken
            /\ (parsed' = "peeked" => getNextToken(source, position', line').token = peeked')
      ]_vars

(* the level of a binary operator in the precedence table, 0 for the others *)
Level(op) ==
    CASE op = <<"|", "|">> -> 1
      [] op = <<"&", "&">> -> 2
      [] op \in {<<"=", "=">>, <<"!", "=">>} -> 3
      [] op \in {<<"<">>, <<"<", "=">>, <<">">>, <<">", "=">>} -> 4
      [] op \in {<<"+">>, <<"-">>} -> 5
      [] op \in {<<"*">>, <<"/">>, <<"%">>} -> 6
      [] op \in {<<"^">>, <<"^", "/">>, <<"^", "^">>, <<"<", "<">>, <<">", ">">>,
                 <<"<", "<", "<">>, <<">", ">", ">">>, <<"&">>, <<"|">>} -> 7
      [] OTHER -> 0

(* C22: in every binary expression built for an operator of the table, an
   unparenthesised left operand has an operator of the same or a higher
   level, and an unparenthesised right operand one of a higher level. *)
C22_PrecedenceAndAssociativity ==
    \A k \in 1..Len(built) :
        (built[k].kind = "BinaryExpression" /\ Level(built[k].op) > 0) =>
            /\ (Level(built[k].leftOp) > 0 => Level(built[k].leftOp) >= Level(built[k].op))
            /\ (Level(built[k].rightOp) > 0 => Level(built[k].rightOp) > Level(built[k].op))

(* C24: when the source is a call used as a statement, `name ( args ) ;`,
   parse() does not fail: it returns an ExpressionStatement that wraps the
   FunctionCallExpression. *)
C24_CallStatementAccepted ==
    LET text == Tokenize(source, 0, 1, <<>>).tokens
        count == Len(text)
    IN  ( /\ count >= 4
          /\ text[1].type = "Identifier"
          /\ text[2].value = <<"(">>
          /\ text[count - 1].value = <<")">>
          /\ text[count].value = <<";">>
          /\ parsed \in {"node", "end", "error"} ) =>
            /\ parsed # "error"
            /\ \E k \in 1..Len(built) : built[k].kind = "FunctionCallExpression"
            /\ \E k \in 1..Len(built) : built[k].kind = "ExpressionStatement"

(* C25: `include "path" ;` parses to an include without target, `include
   a.b from "path" ;` to an include whose target is the dotted name, and
   `include a.b "path" ;` is rejected. *)
C25_IncludeTargetOptional ==
    LET text == Tokenize(source, 0, 1, <<>>).tokens
        count == Len(text)
        hasFrom == \E k \in 1..count : text[k].value = <<"f", "r", "o", "m">>
        included == \E k \in 1..Len(built) : built[k].kind = "IncludeStatement"
        targets == {k \in 1..Len(built) : built[k].kind = "VariableExpression"}
    IN  ( /\ count >= 3
          /\ text[1].value = <<"i", "n", "c", "l", "u", "d", "e">>
          /\ parsed \in {"node", "end", "error"} ) =>
            CASE text[2].type = "StringLiteral" ->
                   parsed # "error" /\ included /\ targets = {}
              [] text[2].type = "Identifier" /\ hasFrom ->
                   /\ parsed # "error" /\ included
                   /\ \E k \in targets : built[k].name = <<"i", ".", "n">>
              [] OTHER -> parsed = "error"

(***************************************************************************)
(* Clone properties, stated of CloneSpec.                                  *)
(***************************************************************************)
(* C26: a call of cloneStatement on a tree the parser builds does not throw
   and gives a tree equal to the original, node by node. *)
C26_CloneTotalAndFaithful ==
    cloned.done => (cloned.ok /\ cloned.node = original)

(***************************************************************************)
(* Termination of the parser of part_007, stated of DescentSpec.           *)
(***************************************************************************)
(* C30: every call of parse() ends: it returns a node, returns nullptr at
   EndOfFile or throws a parse error, also when the file ends inside an
   unclosed block or function body. *)
C30_ParseTerminates ==
    parsed \in {"none", "node", "null", "error"}

====
